---- MODULE Spec2Model ----
(***************************************************************************)
(* A model of go-xsd-validator (package pkg): the validator built by       *)
(* NewValidator, the document parser ParseXML, and the schema-driven walk  *)
(* of Validate.                                                            *)
(*                                                                         *)
(* Representation.  A Go string that the code inspects character by        *)
(* character (element content, attribute values, facet values, occurrence  *)
(* attributes, refs) is a sequence of one-character strings; Str joins it  *)
(* into the text that fmt.Sprintf prints.  A Go string that is only        *)
(* compared and printed (names, namespaces) is a TLA+ string.  A nil-able  *)
(* pointer is a sequence of length 0 (nil) or 1.  A regular expression     *)
(* source is a sequence of atoms ("[A-Z]", "{2}", "-", "\\d", ...).        *)
(***************************************************************************)
EXTENDS Integers, Sequences, FiniteSets, TLC

VARIABLES schema, doc, ret, patterns, gp, asked

vars == <<schema, doc, ret, patterns, gp, asked>>

Nil == <<>>

(***************************************************************************)
(* Text helpers                                                            *)
(***************************************************************************)
RECURSIVE Str(_)
Str(cs) == IF cs = <<>> THEN "" ELSE Head(cs) \o Str(Tail(cs))

DigitChars == <<"0", "1", "2", "3", "4", "5", "6", "7", "8", "9">>
Digits == {DigitChars[i] : i \in 1..10}
DigitVal(c) == (CHOOSE i \in 1..10 : DigitChars[i] = c) - 1

UpperChars == <<"A", "B", "C", "D", "E", "F", "G", "H", "I", "J", "K", "L", "M",
                "N", "O", "P", "Q", "R", "S", "T", "U", "V", "W", "X", "Y", "Z">>
LowerChars == <<"a", "b", "c", "d", "e", "f", "g", "h", "i", "j", "k", "l", "m",
                "n", "o", "p", "q", "r", "s", "t", "u", "v", "w", "x", "y", "z">>

\* unicode.IsSpace on the characters the model uses
Space == {" ", "\t", "\n", "\r"}

RECURSIVE TrimLeft(_)
TrimLeft(cs) == IF cs # <<>> /\ Head(cs) \in Space THEN TrimLeft(Tail(cs)) ELSE cs

RECURSIVE TrimRight(_)
TrimRight(cs) ==
    IF cs # <<>> /\ cs[Len(cs)] \in Space THEN TrimRight(SubSeq(cs, 1, Len(cs) - 1)) ELSE cs

TrimSpace(cs) == TrimRight(TrimLeft(cs))

\* a Go map[string]T: a function on a finite set of strings
EmptyMap == <<>>
MapPut(m, k, v) == [x \in (DOMAIN m) \cup {k} |-> IF x = k THEN v ELSE m[x]]

(***************************************************************************)
(* ParseXML: the token stream of encoding/xml (names already translated    *)
(* by Decoder.Token) folded into a tree of XMLNode.                        *)
(***************************************************************************)
XAttr(space, local, value) == [Name |-> [Space |-> space, Local |-> local], Value |-> value]
StartElement(space, local, attr) ==
    [type |-> "start", Name |-> [Space |-> space, Local |-> local], Attr |-> attr, Data |-> <<>>]
EndElement == [type |-> "end", Name |-> [Space |-> "", Local |-> ""], Attr |-> <<>>, Data |-> <<>>]
CharData(cs) == [type |-> "chardata", Name |-> [Space |-> "", Local |-> ""], Attr |-> <<>>, Data |-> cs]
\* xml.Comment, xml.ProcInst, xml.Directive: no case of the switch takes them
OtherToken == [type |-> "other", Name |-> [Space |-> "", Local |-> ""], Attr |-> <<>>, Data |-> <<>>]
\* decoder.Token() returning an error other than io.EOF
TokenError == [type |-> "error", Name |-> [Space |-> "", Local |-> ""], Attr |-> <<>>, Data |-> <<>>]

\* the namespace context of a start tag: the enclosing one plus its declarations
RECURSIVE DeclareNS(_, _)
DeclareNS(ns, attrs) ==
    IF attrs = <<>> THEN ns
    ELSE LET a == Head(attrs)
             ns1 == IF a.Name.Space = "xmlns" THEN MapPut(ns, a.Name.Local, Str(a.Value))
                    ELSE IF a.Name.Local = "xmlns" THEN MapPut(ns, "", Str(a.Value))
                    ELSE ns
         IN  DeclareNS(ns1, Tail(attrs))

ResolveNS(space, currentNS) ==
    IF space = ""
    THEN IF "" \in DOMAIN currentNS THEN currentNS[""] ELSE ""
    ELSE IF space \in DOMAIN currentNS THEN currentNS[space] ELSE space

RECURSIVE NodeAttributes(_, _, _)
NodeAttributes(m, attrs, currentNS) ==
    IF attrs = <<>> THEN m
    ELSE LET a == Head(attrs)
             m1 == IF a.Name.Space = "xmlns" \/ a.Name.Local = "xmlns" THEN m
                   ELSE IF a.Name.Space # ""
                        THEN MapPut(m, "{" \o ResolveNS(a.Name.Space, currentNS) \o "}"
                                        \o a.Name.Local, a.Value)
                        ELSE MapPut(m, a.Name.Local, a.Value)
         IN  NodeAttributes(m1, Tail(attrs), currentNS)

RECURSIVE NodeDecls(_, _)
NodeDecls(m, attrs) ==
    IF attrs = <<>> THEN m
    ELSE LET a == Head(attrs)
         IN  NodeDecls(IF a.Name.Space = "xmlns" \/ a.Name.Local = "xmlns"
                       THEN MapPut(m, a.Name.Local, a.Value) ELSE m, Tail(attrs))

\* The parser's locals.  heap holds the XMLNode objects; stack and root hold
\* indices into it (the code's *XMLNode pointers); Children holds indices too.
ParseStart == [heap |-> <<>>, stack |-> <<>>, root |-> 0, nsStack |-> <<EmptyMap>>,
               status |-> "ok"]

\* case xml.StartElement, from the new node on: it is linked to its parent or
\* becomes the root, and is pushed with its namespace scope
PushNode(st, node, currentNS) ==
    [st EXCEPT !.heap = IF Len(st.stack) > 0
                        THEN [Append(st.heap, node)
                                 EXCEPT ![st.stack[Len(st.stack)]].Children =
                                            Append(@, Len(st.heap) + 1)]
                        ELSE Append(st.heap, node),
               !.root = IF Len(st.stack) > 0 THEN @ ELSE Len(st.heap) + 1,
               !.stack = Append(@, Len(st.heap) + 1),
               !.nsStack = Append(@, currentNS)]

\* case xml.StartElement, with the namespace scope of the element
OpenElement(st, t, currentNS) ==
    PushNode(st,
             [Name |-> t.Name.Local,
              Namespace |-> ResolveNS(t.Name.Space, currentNS),
              Prefix |-> t.Name.Space,
              Attributes |-> NodeAttributes(EmptyMap, t.Attr, currentNS),
              Content |-> <<>>,
              Children |-> <<>>,
              NamespaceDecls |-> NodeDecls(EmptyMap, t.Attr)],
             currentNS)

ParseToken(st, t) ==
    CASE t.type = "error" -> [st EXCEPT !.status = "error"]
      [] t.type = "start" ->
            OpenElement(st, t, DeclareNS(st.nsStack[Len(st.nsStack)], t.Attr))
      [] t.type = "end" ->
            IF Len(st.stack) = 0 \/ Len(st.nsStack) = 0
            THEN [st EXCEPT !.status = "panic"]   \* slice bounds out of range
            ELSE [st EXCEPT !.stack = SubSeq(@, 1, Len(@) - 1),
                            !.nsStack = SubSeq(@, 1, Len(@) - 1)]
      [] t.type = "chardata" ->
            IF Len(st.stack) > 0
            THEN [st EXCEPT !.heap[st.stack[Len(st.stack)]].Content =
                                @ \o TrimSpace(t.Data)]
            ELSE st
      [] OTHER -> st

RECURSIVE ParseLoop(_, _)
ParseLoop(st, tokens) ==
    IF tokens = <<>> \/ st.status # "ok" THEN st
    ELSE ParseLoop(ParseToken(st, Head(tokens)), Tail(tokens))

\* the tree a *XMLNode points to
RECURSIVE BuildNode(_, _)
BuildNode(heap, id) ==
    [heap[id] EXCEPT !.Children = [i \in 1..Len(@) |-> BuildNode(heap, @[i])]]

\* ParseXML's return: [status, node] with node = Nil for a nil *XMLNode
ParseReturn(st) ==
    IF st.status # "ok" THEN [status |-> st.status, node |-> Nil]
    ELSE [status |-> "ok",
          node |-> IF st.root = 0 THEN Nil ELSE <<BuildNode(st.heap, st.root)>>]

ParseXML(tokens) == ParseReturn(ParseLoop(ParseStart, tokens))

(***************************************************************************)
(* strconv                                                                 *)
(***************************************************************************)
MaxInt32 == 2147483647

RECURSIVE DigitsValue(_, _)
DigitsValue(cs, acc) ==
    IF cs = <<>> THEN acc ELSE DigitsValue(Tail(cs), acc * 10 + DigitVal(Head(cs)))

AllDigits(cs) == cs # <<>> /\ \A i \in 1..Len(cs) : cs[i] \in Digits

Unsigned(cs) == IF cs # <<>> /\ Head(cs) \in {"+", "-"} THEN Tail(cs) ELSE cs
Sign(cs) == IF cs # <<>> /\ Head(cs) = "-" THEN -1 ELSE 1

\* the range check of strconv.ParseInt
InRange(n, bitSize) ==
    IF bitSize = 32 /\ (n > MaxInt32 \/ n < -MaxInt32 - 1)
    THEN [ok |-> FALSE, val |-> IF n > 0 THEN MaxInt32 ELSE -MaxInt32 - 1]
    ELSE [ok |-> TRUE, val |-> n]

\* strconv.ParseInt of the sign and the text u after it
ParseDigits(sign, u, bitSize) ==
    IF ~AllDigits(u) \/ Len(u) > 9 THEN [ok |-> FALSE, val |-> 0]
    ELSE InRange(sign * DigitsValue(u, 0), bitSize)

\* strconv.ParseInt(s, 10, bitSize): [ok, val]; val is 0 on a syntax error.
\* The model's digit strings are short, so only the 32-bit range can be left.
ParseInt(cs, bitSize) == ParseDigits(Sign(cs), Unsigned(cs), bitSize)

\* strconv.Atoi(s)
Atoi(cs) == ParseInt(cs, 64)

RECURSIVE Pow10(_)
Pow10(k) == IF k = 0 THEN 1 ELSE 10 * Pow10(k - 1)

NoFloat == [ok |-> FALSE, mant |-> 0, frac |-> 0]

\* the float with integer part ip and fraction fp
FloatOf(sign, ip, fp) ==
    IF /\ \A i \in 1..Len(ip) : ip[i] \in Digits
       /\ \A i \in 1..Len(fp) : fp[i] \in Digits
       /\ Len(ip) + Len(fp) >= 1
       /\ Len(ip) + Len(fp) <= 9
    THEN [ok |-> TRUE, mant |-> sign * DigitsValue(ip \o fp, 0), frac |-> Len(fp)]
    ELSE NoFloat

\* the text u after the sign, with the positions of its points
FloatParts(sign, u, dots) ==
    IF dots = {} THEN FloatOf(sign, u, <<>>)
    ELSE IF Cardinality(dots) > 1 THEN NoFloat
    ELSE FloatOf(sign, SubSeq(u, 1, (CHOOSE i \in dots : TRUE) - 1),
                 SubSeq(u, (CHOOSE i \in dots : TRUE) + 1, Len(u)))

\* strconv.ParseFloat(s, bitSize) on plain decimal notation (sign, digits, an
\* optional point): [ok, mant, frac] stands for mant / 10^frac; 0 on an error.
\* Exponents, hexadecimal floats, "inf" and "nan" are outside the model's values.
ParseFloat(cs) ==
    FloatParts(Sign(cs), Unsigned(cs),
               {i \in 1..Len(Unsigned(cs)) : Unsigned(cs)[i] = "."})

\* comparison of two parsed floats
FloatLess(a, b) == a.mant * Pow10(b.frac) < b.mant * Pow10(a.frac)
FloatLessEq(a, b) == a.mant * Pow10(b.frac) <= b.mant * Pow10(a.frac)

\* fmt's %v of a float64 whose shortest decimal form needs no exponent
RECURSIVE FracText(_, _)
FracText(m, k) ==
    IF k = 0 THEN ""
    ELSE ToString(m \div Pow10(k - 1)) \o FracText(m % Pow10(k - 1), k - 1)

\* the digits of |mant| / 10^frac
FormatAbs(a, frac) ==
    ToString(a \div Pow10(frac))
    \o (IF frac > 0 THEN "." \o FracText(a % Pow10(frac), frac) ELSE "")

RECURSIVE FormatFloat(_)
FormatFloat(f) ==
    IF f.frac > 0 /\ f.mant % 10 = 0
    THEN FormatFloat([f EXCEPT !.mant = @ \div 10, !.frac = @ - 1])
    ELSE IF f.mant < 0 THEN "-" \o FormatAbs(-f.mant, f.frac)
    ELSE FormatAbs(f.mant, f.frac)

(***************************************************************************)
(* regexp: a source is a sequence of atoms; Compile gives the items of the *)
(* expression or fails, MatchString searches the value for a match.        *)
(***************************************************************************)
QuantAtoms == {"*", "+", "?", "{2}", "{3}", "{4}", "{5}", "{0,2}"}
\* <<min, max>>, max = -1 for no upper limit
QuantOf(a) ==
    CASE a = "*" -> <<0, -1>>
      [] a = "+" -> <<1, -1>>
      [] a = "?" -> <<0, 1>>
      [] a = "{2}" -> <<2, 2>>
      [] a = "{3}" -> <<3, 3>>
      [] a = "{4}" -> <<4, 4>>
      [] a = "{5}" -> <<5, 5>>
      [] a = "{0,2}" -> <<0, 2>>

\* escapes of XSD's dialect that Go's regexp/syntax rejects
BadEscapes == {"\\i", "\\c"}

HexLetters == {"a", "b", "c", "d", "e", "f", "A", "B", "C", "D", "E", "F"}

\* the characters of a named class
ClassChars(k) ==
    CASE k = "upper" -> {UpperChars[i] : i \in 1..26}
      [] k = "lower" -> {LowerChars[i] : i \in 1..26}
      [] k = "digit" -> Digits
      [] k = "hex" -> HexLetters
      [] OTHER -> {k}

\* the classes and single characters a one-character expression stands for
AtomParts(a) ==
    CASE a = "[A-Z]" -> {"upper"}
      [] a = "[a-z]" -> {"lower"}
      [] a = "[0-9]" -> {"digit"}
      [] a = "\\d" -> {"digit"}
      [] a = "[a-zA-Z]" -> {"upper", "lower"}
      [] a = "[a-zA-Z0-9_]" -> {"upper", "lower", "digit", "_"}
      [] a = "\\w" -> {"upper", "lower", "digit", "_"}
      [] a = "[0-9a-fA-F]" -> {"digit", "hex"}
      [] a = "[A-Za-z0-9+/]" -> {"upper", "lower", "digit", "+", "/"}
      [] a = "[a-zA-Z0-9+.-]" -> {"upper", "lower", "digit", "+", ".", "-"}
      [] OTHER -> {a}

\* does the one-character expression `a` match the character c
AtomMatches(a, c) ==
    IF a = "." THEN c # "\n" ELSE \E k \in AtomParts(a) : c \in ClassChars(k)

RECURSIVE CompileLoop(_, _)
CompileLoop(atoms, items) ==
    IF atoms = <<>> THEN [ok |-> TRUE, items |-> items]
    ELSE IF Head(atoms) \in BadEscapes THEN [ok |-> FALSE, items |-> <<>>]
    ELSE IF Head(atoms) \in QuantAtoms
    THEN IF items = <<>> \/ items[Len(items)].quantified
         THEN [ok |-> FALSE, items |-> <<>>]   \* missing or nested repetition
         ELSE CompileLoop(Tail(atoms),
                          [items EXCEPT ![Len(items)] =
                              [atom |-> @.atom, min |-> QuantOf(Head(atoms))[1],
                               max |-> QuantOf(Head(atoms))[2], quantified |-> TRUE]])
    ELSE CompileLoop(Tail(atoms),
                     Append(items, [atom |-> Head(atoms), min |-> 1, max |-> 1,
                                    quantified |-> FALSE]))

\* regexp.Compile
Compile(atoms) == CompileLoop(atoms, <<>>)

\* the largest repetition count of item `it` that fits in `left` characters
MaxRepeat(it, left) == IF it.max = -1 \/ it.max > left THEN left ELSE it.max

RECURSIVE MatchHere(_, _, _, _)
MatchHere(items, k, v, i) ==
    IF k > Len(items) THEN TRUE
    ELSE IF items[k].atom = "^"
    THEN (items[k].min = 0 \/ i = 1) /\ MatchHere(items, k + 1, v, i)
    ELSE IF items[k].atom = "$"
    THEN (items[k].min = 0 \/ i = Len(v) + 1) /\ MatchHere(items, k + 1, v, i)
    ELSE \E n \in items[k].min..MaxRepeat(items[k], Len(v) - i + 1) :
            /\ \A j \in i..(i + n - 1) : AtomMatches(items[k].atom, v[j])
            /\ MatchHere(items, k + 1, v, i + n)

\* Regexp.MatchString: the expression matches somewhere in v
MatchCompiled(items, v) == \E i \in 1..(Len(v) + 1) : MatchHere(items, 1, v, i)

\* the result of MatchString once the expression is compiled (or not)
MatchResult(re, v) ==
    IF ~re.ok THEN [ok |-> FALSE, matched |-> FALSE]
    ELSE [ok |-> TRUE, matched |-> MatchCompiled(re.items, v)]

\* regexp.MatchString(pattern, s): [ok, matched]
MatchString(atoms, v) == MatchResult(Compile(atoms), v)

\* strings.ReplaceAll on atom sequences
RECURSIVE ReplaceAll(_, _, _)
ReplaceAll(s, old, new) ==
    IF Len(s) < Len(old) THEN s
    ELSE IF SubSeq(s, 1, Len(old)) = old
         THEN new \o ReplaceAll(SubSeq(s, Len(old) + 1, Len(s)), old, new)
         ELSE <<Head(s)>> \o ReplaceAll(Tail(s), old, new)

convertXSDPatternToGoRegex(pattern) ==
    <<"^">>
    \o ReplaceAll(
         ReplaceAll(
           ReplaceAll(
             ReplaceAll(pattern, <<"\\i", "\\c", "*">>,
                        <<"[a-zA-Z]", "[a-zA-Z0-9_]", "*">>),
             <<"\\c">>, <<"[a-zA-Z0-9_]">>),
           <<"\\d">>, <<"[0-9]">>),
         <<"\\w">>, <<"[a-zA-Z0-9_]">>)
    \o <<"$">>

(***************************************************************************)
(* time.Parse and the duration grammar, as validateBaseType uses them      *)
(***************************************************************************)
IsDigitAt(v, i) == i >= 1 /\ i <= Len(v) /\ v[i] \in Digits
DigitsAt(v, i, n) == \A k \in i..(i + n - 1) : IsDigitAt(v, k)
NumAt(v, i, n) == DigitsValue(SubSeq(v, i, i + n - 1), 0)
CharAt(v, i, c) == i >= 1 /\ i <= Len(v) /\ v[i] = c

DaysIn(month, year) ==
    CASE month \in {4, 6, 9, 11} -> 30
      [] month = 2 -> IF year % 4 = 0 /\ (year % 100 # 0 \/ year % 400 = 0) THEN 29 ELSE 28
      [] OTHER -> 31

\* layout "2006-01-02" read from position i: the position after it, 0 on failure
DateEnd(v, i) ==
    IF /\ DigitsAt(v, i, 4) /\ CharAt(v, i + 4, "-") /\ DigitsAt(v, i + 5, 2)
       /\ CharAt(v, i + 7, "-") /\ DigitsAt(v, i + 8, 2)
       /\ NumAt(v, i + 5, 2) \in 1..12
       /\ NumAt(v, i + 8, 2) \in 1..DaysIn(NumAt(v, i + 5, 2), NumAt(v, i, 4))
    THEN i + 10 ELSE 0

\* the position after an optional fraction of a second that starts at e
FracEnd(v, e) ==
    IF (CharAt(v, e, ".") \/ CharAt(v, e, ",")) /\ IsDigitAt(v, e + 1)
    THEN CHOOSE j \in (e + 2)..(Len(v) + 1) :
             /\ DigitsAt(v, e + 1, j - e - 1)
             /\ ~IsDigitAt(v, j)
    ELSE e

\* layout "15:04:05" read from position i, the hour hl digits long
TimeFrom(v, i, hl) ==
    IF /\ IsDigitAt(v, i) /\ NumAt(v, i, hl) \in 0..23
       /\ CharAt(v, i + hl, ":") /\ DigitsAt(v, i + hl + 1, 2)
       /\ NumAt(v, i + hl + 1, 2) \in 0..59
       /\ CharAt(v, i + hl + 3, ":") /\ DigitsAt(v, i + hl + 4, 2)
       /\ NumAt(v, i + hl + 4, 2) \in 0..59
    THEN FracEnd(v, i + hl + 6) ELSE 0

\* layout "15:04:05" read from position i (the hour takes one or two digits, a
\* fraction of a second may follow the seconds)
TimeEnd(v, i) == TimeFrom(v, i, IF IsDigitAt(v, i + 1) THEN 2 ELSE 1)

\* positions reachable from S after an optional "<digits><letter>" component
OptComponent(v, S, letter) ==
    S \cup {j \in 1..(Len(v) + 1) :
              \E i \in S : /\ i <= j - 2 /\ CharAt(v, j - 1, letter)
                           /\ DigitsAt(v, i, j - 1 - i)}

\* ... after an optional "<digits>[.<digits>]S" component
OptSeconds(v, S) ==
    S \cup OptComponent(v, S, "S")
      \cup {j \in 1..(Len(v) + 1) :
              \E i \in S : \E d \in (i + 1)..(j - 3) :
                 /\ CharAt(v, j - 1, "S") /\ CharAt(v, d, ".")
                 /\ DigitsAt(v, i, d - i) /\ DigitsAt(v, d + 1, j - 2 - d)}

\* the time part of a duration, read from the positions afterDate
DurationEnds(v, afterDate) ==
    (Len(v) + 1) \in
        (afterDate
         \cup OptSeconds(v, OptComponent(v,
                  OptComponent(v, {j + 1 : j \in {i \in afterDate : CharAt(v, i, "T")}},
                               "H"), "M")))

\* a duration whose letter P stands at position p
DurationFrom(v, p) ==
    /\ CharAt(v, p, "P")
    /\ DurationEnds(v, OptComponent(v, OptComponent(v, OptComponent(v, {p + 1}, "Y"),
                                                    "M"), "D"))

\* validateDuration: ^-?P((nY)?(nM)?(nD)?)?(T(nH)?(nM)?(n(.n)?S)?)?$
validateDuration(v) == DurationFrom(v, IF CharAt(v, 1, "-") THEN 2 ELSE 1)

(***************************************************************************)
(* Schema model (xsd.go).  The one-field struct XSDValue is its Value.     *)
(***************************************************************************)
XSDElement(name) ==
    [Name |-> name, Namespace |-> "", Type |-> "", Ref |-> <<>>, MinOccurs |-> <<>>,
     MaxOccurs |-> <<>>, ComplexType |-> Nil, SimpleType |-> Nil]

XSDComplexType(name, sequence, choice, attributes) ==
    [Name |-> name, Sequence |-> sequence, Choice |-> choice, Attributes |-> attributes]

XSDSimpleType(name, restriction) ==
    [Name |-> name, Restriction |-> restriction, Union |-> Nil, List |-> Nil]

XSDSequence(elements) == [Elements |-> elements]

XSDChoice(minOccurs, maxOccurs, choice, elements) ==
    [MinOccurs |-> minOccurs, MaxOccurs |-> maxOccurs, Choice |-> choice,
     Elements |-> elements]

XSDAttribute(name, type, use) ==
    [Name |-> name, Type |-> type, Use |-> use, Default |-> "", Fixed |-> "",
     SimpleType |-> Nil]

XSDRestriction(base) ==
    [Base |-> base, Pattern |-> <<>>, Enumeration |-> <<>>, Length |-> <<>>,
     MinLength |-> <<>>, MaxLength |-> <<>>, MinInclusive |-> <<>>,
     MaxInclusive |-> <<>>, MinExclusive |-> <<>>, MaxExclusive |-> <<>>,
     WhiteSpace |-> "", TotalDigits |-> "", FractionDigits |-> ""]

XSDList(itemType) == [ItemType |-> itemType]
XSDUnion(memberTypes) == [MemberTypes |-> memberTypes, SimpleTypes |-> <<>>]

XSDSchema(targetNS, form, elements, complexTypes, simpleTypes) ==
    [TargetNS |-> targetNS, ElementFormDefault |-> form, Elements |-> elements,
     ComplexTypes |-> complexTypes, SimpleTypes |-> simpleTypes]

(***************************************************************************)
(* Type and restriction checker (types.go, validateRestrictions).  An      *)
(* error value is [kind, msg]: kind "nil" for a nil error, "err" for an    *)
(* error with text msg, "overflow" when the recursion never returns.       *)
(***************************************************************************)
NoErr == [kind |-> "nil", msg |-> ""]
Errorf(msg) == [kind |-> "err", msg |-> msg]
Overflow == [kind |-> "overflow", msg |-> ""]

RuneCount(value) == Len(value)

\* the first error of a run of checks that return at the first error
RECURSIVE FirstError(_)
FirstError(es) ==
    IF es = <<>> THEN NoErr
    ELSE IF Head(es).kind # "nil" THEN Head(es)
    ELSE FirstError(Tail(es))

\* one length facet: its error text when the facet is violated
LengthError(violated, text, length, actualLen) ==
    IF violated
    THEN Errorf(text \o ToString(length) \o ", got " \o ToString(actualLen))
    ELSE NoErr

\* one length facet of kind "=", ">=" or "<=" with its declared value
LengthFacet(kind, facet, length, actualLen) ==
    IF facet = <<>> THEN NoErr
    ELSE CASE kind = "=" ->
                LengthError(actualLen # length, "length must be exactly ", length, actualLen)
           [] kind = ">=" ->
                LengthError(actualLen < length, "length must be at least ", length, actualLen)
           [] kind = "<=" ->
                LengthError(actualLen > length, "length must be at most ", length, actualLen)

\* validateRestrictions, the length facets
LengthFacets(value, r) ==
    FirstError(<<LengthFacet("=", r.Length, Atoi(r.Length).val, RuneCount(value)),
                 LengthFacet(">=", r.MinLength, Atoi(r.MinLength).val, RuneCount(value)),
                 LengthFacet("<=", r.MaxLength, Atoi(r.MaxLength).val, RuneCount(value))>>)

NumericBases == {"xs:decimal", "xs:integer", "xs:float", "xs:double"}

\* one numeric bound of kind ">=", "<=", ">" or "<", with its parsed value
NumericBound(kind, facet, bound, num) ==
    IF /\ facet # <<>>
       /\ bound.ok
       /\ CASE kind = ">=" -> FloatLess(num, bound)
            [] kind = "<=" -> FloatLess(bound, num)
            [] kind = ">" -> FloatLessEq(num, bound)
            [] kind = "<" -> FloatLessEq(bound, num)
    THEN Errorf("value must be " \o kind \o " " \o FormatFloat(bound) \o ", got "
                \o FormatFloat(num))
    ELSE NoErr

\* the numeric bounds of a value parsed as num
NumericBounds(num, r) ==
    FirstError(<<NumericBound(">=", r.MinInclusive, ParseFloat(r.MinInclusive), num),
                 NumericBound("<=", r.MaxInclusive, ParseFloat(r.MaxInclusive), num),
                 NumericBound(">", r.MinExclusive, ParseFloat(r.MinExclusive), num),
                 NumericBound("<", r.MaxExclusive, ParseFloat(r.MaxExclusive), num)>>)

\* validateRestrictions, the numeric bounds
NumericFacets(value, baseType, r) ==
    IF baseType \notin NumericBases THEN NoErr
    ELSE NumericBounds(ParseFloat(value), r)

\* the check one pattern facet applies to a value
PatternMatch(pattern, value) == MatchString(pattern, value)

\* the error of one pattern facet, m the result of its match
PatternError(m, text) ==
    IF ~m.ok THEN Errorf("invalid pattern: " \o text)
    ELSE IF ~m.matched THEN Errorf("value does not match pattern: " \o text)
    ELSE NoErr

\* validateRestrictions, the pattern facets
RECURSIVE PatternFacets(_, _)
PatternFacets(value, facets) ==
    IF facets = <<>> THEN NoErr
    ELSE FirstError(<<PatternError(PatternMatch(Head(facets), value),
                                   Str(Head(facets))),
                      PatternFacets(value, Tail(facets))>>)

\* strings.ToLower / strings.EqualFold on the model's letters
ToLower(cs) ==
    [i \in 1..Len(cs) |->
        IF \E k \in 1..26 : UpperChars[k] = cs[i]
        THEN LowerChars[CHOOSE k \in 1..26 : UpperChars[k] = cs[i]]
        ELSE cs[i]]

\* a slip: the comparison made with strings.EqualFold
EnumerationFacetFold(value, enumeration) ==
    IF Len(enumeration) > 0
       /\ ~(\E i \in 1..Len(enumeration) : ToLower(value) = ToLower(enumeration[i]))
    THEN [kind |-> "err", msg |-> "value must be one of the enumerated values"]
    ELSE [kind |-> "nil", msg |-> ""]

\* validateRestrictions, the enumeration facet
EnumerationFacet(value, enumeration) ==
    IF Len(enumeration) > 0 /\ ~(\E i \in 1..Len(enumeration) : value = enumeration[i])
    THEN Errorf("value must be one of the enumerated values")
    ELSE NoErr

validateRestrictions(value, baseType, restrictions) ==
    FirstError(<<LengthFacets(value, restrictions),
                 NumericFacets(value, baseType, restrictions),
                 PatternFacets(value, restrictions.Pattern),
                 EnumerationFacet(value, restrictions.Enumeration)>>)

\* a pointer to the first definition of that name in a list, or nil
FirstNamed(defs, name) ==
    IF \E i \in 1..Len(defs) : defs[i].Name = name
    THEN <<defs[CHOOSE i \in 1..Len(defs) :
                   /\ defs[i].Name = name
                   /\ \A j \in 1..(i - 1) : defs[j].Name # name]>>
    ELSE Nil

findSimpleType(name) == FirstNamed(schema.SimpleTypes, name)

findComplexType(name) == FirstNamed(schema.ComplexTypes, name)

\* the built-in cases of validateBaseType's switch
BuiltinTypes ==
    {"xs:string", "string", "xs:integer", "integer", "xs:int", "int",
     "xs:positiveInteger", "xs:decimal", "decimal", "xs:float", "float",
     "xs:double", "double", "xs:long", "long", "xs:boolean", "boolean",
     "xs:date", "date", "xs:time", "time", "xs:dateTime", "dateTime",
     "xs:duration", "duration", "xs:gYear", "gYear", "xs:gYearMonth", "gYearMonth",
     "xs:hexBinary", "hexBinary", "xs:base64Binary", "base64Binary",
     "xs:anyURI", "anyURI"}

\* the type's word in the message "invalid ... value: ..."
TypeWord(typeName) ==
    CASE typeName \in {"xs:integer", "integer"} -> "integer"
      [] typeName \in {"xs:int", "int"} -> "int"
      [] typeName \in {"xs:decimal", "decimal"} -> "decimal"
      [] typeName \in {"xs:float", "float"} -> "float"
      [] typeName \in {"xs:double", "double"} -> "double"
      [] typeName \in {"xs:long", "long"} -> "long"
      [] typeName \in {"xs:boolean", "boolean"} -> "boolean"
      [] typeName \in {"xs:date", "date"} -> "date"
      [] typeName \in {"xs:time", "time"} -> "time"
      [] typeName \in {"xs:dateTime", "dateTime"} -> "dateTime"
      [] typeName \in {"xs:duration", "duration"} -> "duration"
      [] typeName \in {"xs:gYear", "gYear"} -> "gYear"
      [] typeName \in {"xs:gYearMonth", "gYearMonth"} -> "gYearMonth"
      [] typeName \in {"xs:hexBinary", "hexBinary"} -> "hexBinary"
      [] typeName \in {"xs:base64Binary", "base64Binary"} -> "base64Binary"
      [] typeName \in {"xs:anyURI", "anyURI"} -> "anyURI"
      [] OTHER -> typeName

\* the regular expressions of the cases that match one
TypeRegexp(typeName) ==
    CASE typeName \in {"xs:gYear", "gYear"} -> <<"^", "-", "?", "\\d", "{4}", "$">>
      [] typeName \in {"xs:gYearMonth", "gYearMonth"} ->
            <<"^", "-", "?", "\\d", "{4}", "-", "\\d", "{2}", "$">>
      [] typeName \in {"xs:hexBinary", "hexBinary"} -> <<"^", "[0-9a-fA-F]", "*", "$">>
      [] typeName \in {"xs:base64Binary", "base64Binary"} ->
            <<"^", "[A-Za-z0-9+/]", "*", "=", "{0,2}", "$">>
      [] typeName \in {"xs:anyURI", "anyURI"} ->
            <<"^", "[a-zA-Z]", "[a-zA-Z0-9+.-]", "*", ":">>

\* the condition under which a case of the switch returns no error
BuiltinAccepts(value, typeName) ==
    CASE typeName \in {"xs:string", "string"} -> TRUE
      [] typeName \in {"xs:integer", "integer", "xs:long", "long"} ->
            ParseInt(value, 64).ok
      [] typeName \in {"xs:int", "int"} -> ParseInt(value, 32).ok
      [] typeName \in {"xs:decimal", "decimal", "xs:float", "float",
                       "xs:double", "double"} -> ParseFloat(value).ok
      [] typeName \in {"xs:boolean", "boolean"} ->
            Str(value) \in {"true", "false", "1", "0"}
      [] typeName \in {"xs:date", "date"} -> DateEnd(value, 1) = Len(value) + 1
      [] typeName \in {"xs:time", "time"} -> TimeEnd(value, 1) = Len(value) + 1
      [] typeName \in {"xs:dateTime", "dateTime"} ->
            /\ DateEnd(value, 1) = 11 /\ CharAt(value, 11, "T")
            /\ TimeEnd(value, 12) = Len(value) + 1
      [] typeName \in {"xs:duration", "duration"} -> validateDuration(value)
      [] OTHER -> MatchString(TypeRegexp(typeName), value).matched

\* case "xs:positiveInteger", parsed the result of ParseInt
PositiveInteger(parsed, text) ==
    IF ~parsed.ok THEN Errorf("invalid positive integer value: " \o text)
    ELSE IF parsed.val <= 0
    THEN Errorf("value must be positive, got " \o ToString(parsed.val))
    ELSE NoErr

validateBuiltin(value, typeName) ==
    IF typeName = "xs:positiveInteger"
    THEN PositiveInteger(ParseInt(value, 64), Str(value))
    ELSE IF BuiltinAccepts(value, typeName) THEN NoErr
    ELSE Errorf("invalid " \o TypeWord(typeName) \o " value: " \o Str(value))

\* validateType and validateBaseType call each other through user-defined
\* simple types.  seen holds the type names already entered for this value: the
\* arguments of a call are determined by the type name, so entering a name
\* again repeats the call for ever.
RECURSIVE validateType(_, _, _, _)

\* the default case of validateBaseType's switch, simpleType the type found
validateUserType(value, typeName, simpleType, seen) ==
    IF simpleType = Nil THEN Errorf("unsupported type: " \o typeName)
    ELSE IF simpleType[1].Restriction # Nil
    THEN IF typeName \in seen THEN Overflow
         ELSE validateType(value, simpleType[1].Restriction[1].Base,
                              simpleType[1].Restriction, seen \cup {typeName})
    ELSE Errorf("simple type " \o typeName \o " has no restriction")

validateBaseType(value, typeName, seen) ==
    IF typeName \in BuiltinTypes THEN validateBuiltin(value, typeName)
    ELSE validateUserType(value, typeName, findSimpleType(typeName), seen)

validateType(value, typeName, restrictions, seen) ==
    FirstError(<<validateBaseType(value, typeName, seen),
                 IF restrictions # Nil
                 THEN validateRestrictions(value, typeName, restrictions[1])
                 ELSE NoErr>>)


(***************************************************************************)
(* Structural validator (validate.go, xsd.go).  A walk ends in an outcome  *)
(* [abort, errs]: abort = "" and the errors appended so far, or the reason *)
(* the goroutine died.  Go leaves the iteration order of a map unspecified,*)
(* so an operator that ranges over a map yields the set of the outcomes    *)
(* the orders can produce.                                                 *)
(***************************************************************************)
Out(errs) == [abort |-> "", errs |-> errs]
Abort(why) == [abort |-> why, errs |-> <<>>]
NilDeref == "nil pointer dereference"
StackOverflow == "stack overflow"

Cat(a, b) ==
    IF a.abort # "" THEN a ELSE IF b.abort # "" THEN b ELSE Out(a.errs \o b.errs)
CatSets(A, B) == {Cat(a, b) : a \in A, b \in B}

\* an error value appended to the error list with a prefix, or the abort it
\* stands for
ErrOutcome(e, prefix) ==
    CASE e.kind = "nil" -> Out(<<>>)
      [] e.kind = "err" -> Out(<<prefix \o e.msg>>)
      [] e.kind = "overflow" -> Abort(StackOverflow)
      [] e.kind = "nilderef" -> Abort(NilDeref)

\* the orders in which `range` can visit the keys S of a map
RECURSIVE RangeOrders(_)
RangeOrders(S) ==
    IF S = {} THEN {<<>>}
    ELSE UNION {{<<x>> \o q : q \in RangeOrders(S \ {x})} : x \in S}

\* strings.Split(ref, ":")
RECURSIVE Split(_, _)
Split(cs, cur) ==
    IF cs = <<>> THEN <<cur>>
    ELSE IF Head(cs) = ":" THEN <<cur>> \o Split(Tail(cs), <<>>)
    ELSE Split(Tail(cs), Append(cur, Head(cs)))

\* the local name resolveElementRef takes from the parts of a ref
LocalName(parts) == Str(IF Len(parts) > 1 THEN parts[2] ELSE parts[1])

\* resolveElementRef's return for the element found (or not): [ok, elem, msg]
RefReturn(ref, elem) ==
    IF elem = Nil
    THEN [ok |-> FALSE, elem |-> Nil,
          msg |-> "referenced element not found: " \o Str(ref)]
    ELSE [ok |-> TRUE, elem |-> elem, msg |-> ""]

\* a slip: the ref is looked up as written, prefix included
resolveElementRefWhole(ref) == RefReturn(ref, FirstNamed(schema.Elements, Str(ref)))

resolveElementRef(ref) ==
    RefReturn(ref, FirstNamed(schema.Elements, LocalName(Split(ref, <<>>))))

\* findSchemaElementNS: a pointer to the first matching element, or nil
findSchemaElementNS(name, namespace, elements) ==
    LET elemNS(e) == IF e.Namespace = "" THEN schema.TargetNS ELSE e.Namespace
        hits == {i \in 1..Len(elements) :
                    /\ elements[i].Name = name
                    /\ \/ elemNS(elements[i]) = namespace
                       \/ (schema.ElementFormDefault # "qualified"
                           /\ namespace = schema.TargetNS)}
    IN  IF hits = {} THEN Nil
        ELSE <<elements[CHOOSE i \in hits : \A j \in hits : i <= j]>>

\* a slip: the namespaces are compared under every form policy
validateElementNameAndNSStrict(xmlNode, xsdElem) ==
    LET schemaNamespace ==
            IF xsdElem.Namespace = "" THEN schema.TargetNS ELSE xsdElem.Namespace
    IN  IF xmlNode.Name # xsdElem.Name THEN FALSE
        ELSE xmlNode.Namespace = schemaNamespace

validateElementNameAndNS(xmlNode, xsdElem) ==
    LET schemaNamespace ==
            IF xsdElem.Namespace = "" THEN schema.TargetNS ELSE xsdElem.Namespace
    IN  IF xmlNode.Name # xsdElem.Name THEN FALSE
        ELSE IF schema.ElementFormDefault = "qualified"
        THEN IF schemaNamespace = "" THEN xmlNode.Namespace = ""
             ELSE xmlNode.Namespace = schemaNamespace
        ELSE TRUE

validateAttributeValue(value, attr) ==
    IF attr.Type # "" THEN validateType(value, attr.Type, Nil, {})
    ELSE IF attr.SimpleType # Nil /\ attr.SimpleType[1].Restriction # Nil
    THEN validateType(value, attr.SimpleType[1].Restriction[1].Base,
                      attr.SimpleType[1].Restriction, {})
    ELSE NoErr

\* validateElementContent: an error value, or the nil dereference of
\* element.SimpleType.Restriction.Base
validateElementContent(content, element) ==
    IF element.SimpleType # Nil
    THEN IF element.SimpleType[1].Restriction = Nil
         THEN [kind |-> "nilderef", msg |-> ""]
         ELSE validateType(content, element.SimpleType[1].Restriction[1].Base,
                           element.SimpleType[1].Restriction, {})
    ELSE IF element.Type # "" THEN validateType(content, element.Type, Nil, {})
    ELSE NoErr

\* the body of the loop over the node's attributes for one attribute, decl the
\* first declaration of that name
AttrErrors(name, value, decl) ==
    IF decl = Nil THEN Out(<<"unexpected attribute '" \o name \o "'">>)
    ELSE ErrOutcome(validateAttributeValue(value, decl[1]),
                    "attribute '" \o name \o "': ")

\* the errors of the loop over the node's attributes, visited in the order ord
RECURSIVE AttrLoop(_, _, _)
AttrLoop(ord, nodeAttrs, schemaAttrs) ==
    IF ord = <<>> THEN Out(<<>>)
    ELSE Cat(AttrErrors(Head(ord), nodeAttrs[Head(ord)],
                        FirstNamed(schemaAttrs, Head(ord))),
             AttrLoop(Tail(ord), nodeAttrs, schemaAttrs))

\* the loop over requiredAttrs, visited in the order ord
MissingErrors(ord) ==
    Out([i \in 1..Len(ord) |-> "missing required attribute '" \o ord[i] \o "'"])

\* the names left in requiredAttrs after the loop over the node's attributes
\* (delete(requiredAttrs, name) for every node attribute the schema declares)
StillRequired(nodeAttrs, schemaAttrs) ==
    {schemaAttrs[i].Name :
        i \in {j \in 1..Len(schemaAttrs) : schemaAttrs[j].Use = "required"}}
    \ ((DOMAIN nodeAttrs) \cap {schemaAttrs[i].Name : i \in 1..Len(schemaAttrs)})

\* a slip: a required attribute that is present is not taken off the map
validateAttributesNoDelete(nodeAttrs, schemaAttrs) ==
    {Cat(AttrLoop(ord, nodeAttrs, schemaAttrs), MissingErrors(ord2)) :
        ord \in RangeOrders(DOMAIN nodeAttrs),
        ord2 \in RangeOrders({schemaAttrs[i].Name :
                    i \in {j \in 1..Len(schemaAttrs) : schemaAttrs[j].Use = "required"}})}

validateAttributes(nodeAttrs, schemaAttrs) ==
    {Cat(AttrLoop(ord, nodeAttrs, schemaAttrs), MissingErrors(ord2)) :
        ord \in RangeOrders(DOMAIN nodeAttrs),
        ord2 \in RangeOrders(StillRequired(nodeAttrs, schemaAttrs))}

\* an occurrence attribute that strconv.Atoi has read, or the value kept
ParsedOr(parsed, kept) == IF parsed.ok THEN parsed.val ELSE kept

\* minOccurs / maxOccurs as validateSequence and validateChoice read them
MinOccursOf(s) == IF s = <<>> THEN 1 ELSE ParsedOr(Atoi(s), 1)
MaxOccursOf(s) ==
    IF s = <<>> THEN 1
    ELSE IF Str(s) = "unbounded" THEN MaxInt32
    ELSE ParsedOr(Atoi(s), 1)

Count(children, name) == Cardinality({i \in 1..Len(children) : children[i].Name = name})

\* expectedChildren[name]: the last member of that name wins the map slot
ExpectedChild(elements, name) ==
    IF \E i \in 1..Len(elements) : elements[i].Name = name
    THEN <<elements[CHOOSE i \in 1..Len(elements) :
                       /\ elements[i].Name = name
                       /\ \A j \in (i + 1)..Len(elements) : elements[j].Name # name]>>
    ELSE Nil

\* a slip: the bounds compared with <= and >=
OccurrenceErrorsOffByOne(what, count, minOccurs, maxOccurs) ==
    (IF count <= minOccurs
     THEN <<what \o " occurs " \o ToString(count) \o " times, minimum required is "
            \o ToString(minOccurs)>>
     ELSE <<>>)
    \o (IF count >= maxOccurs
        THEN <<what \o " occurs " \o ToString(count) \o " times, maximum allowed is "
               \o ToString(maxOccurs)>>
        ELSE <<>>)

OccurrenceErrors(what, count, minOccurs, maxOccurs) ==
    (IF count < minOccurs
     THEN <<what \o " occurs " \o ToString(count) \o " times, minimum required is "
            \o ToString(minOccurs)>>
     ELSE <<>>)
    \o (IF count > maxOccurs
        THEN <<what \o " occurs " \o ToString(count) \o " times, maximum allowed is "
               \o ToString(maxOccurs)>>
        ELSE <<>>)

\* the occurrence check of validateSequence for the members from index i on;
\* counts[] is only incremented for names that are expected
RECURSIVE SequenceOccurs(_, _, _)
SequenceOccurs(children, elements, i) ==
    IF i > Len(elements) THEN <<>>
    ELSE OccurrenceErrors("element '" \o elements[i].Name \o "'",
                          Count(children, elements[i].Name),
                          MinOccursOf(elements[i].MinOccurs),
                          MaxOccursOf(elements[i].MaxOccurs))
         \o SequenceOccurs(children, elements, i + 1)

RECURSIVE validateElement(_, _, _)
RECURSIVE validateSequenceChildren(_, _, _)
RECURSIVE validateChoice(_, _)
RECURSIVE ChoiceChildren(_, _, _)
RECURSIVE ChoiceAlternatives(_, _, _)

\* the body of validateSequence's loop for one child, childDef its slot in
\* expectedChildren
ChildErrors(child, childDef) ==
    IF childDef # Nil THEN validateElement(child, childDef[1], {})
    ELSE {Out(<<"unexpected element '" \o child.Name \o "'">>)}

\* a slip: the loop over the children ends at the first unexpected one
validateSequenceChildrenStopping(children, elements, i) ==
    IF i > Len(children) THEN {Out(<<>>)}
    ELSE IF ExpectedChild(elements, children[i].Name) = Nil
    THEN {Out(<<"unexpected element '" \o children[i].Name \o "'">>)}
    ELSE CatSets(ChildErrors(children[i], ExpectedChild(elements, children[i].Name)),
                 validateSequenceChildren(children, elements, i + 1))

\* the loop of validateSequence over the children from index i on
validateSequenceChildren(children, elements, i) ==
    IF i > Len(children) THEN {Out(<<>>)}
    ELSE CatSets(ChildErrors(children[i], ExpectedChild(elements, children[i].Name)),
                 validateSequenceChildren(children, elements, i + 1))

validateSequence(children, sequence) ==
    CatSets(validateSequenceChildren(children, sequence.Elements, 1),
            {Out(SequenceOccurs(children, sequence.Elements, 1))})

\* The inner loop of validateChoice for one child at alternative k, once the
\* element to validate against is known: the set of [found, out].
ChoiceMatch(child, elements, k, elemToValidate) ==
    IF validateElementNameAndNS(child, elemToValidate)
    THEN {[found |-> TRUE, out |-> o] :
             o \in validateElement(child, elemToValidate, {})}
    ELSE ChoiceAlternatives(child, elements, k + 1)

\* ... at alternative k, res the resolution of its ref
ChoiceTry(child, elements, k, res) ==
    IF elements[k].Ref # <<>> /\ ~res.ok
    THEN {[found |-> r.found, out |-> Cat(Out(<<res.msg>>), r.out)] :
             r \in ChoiceAlternatives(child, elements, k + 1)}
    ELSE ChoiceMatch(child, elements, k,
                     IF elements[k].Ref # <<>> THEN res.elem[1] ELSE elements[k])

\* The inner loop of validateChoice for one child, from alternative k on: the
\* set of [found, out], out the errors the loop appends for this child.
ChoiceAlternatives(child, elements, k) ==
    IF k > Len(elements)
    THEN {[found |-> FALSE,
           out |-> Out(<<"element '" \o child.Name \o "' is not a valid choice">>)]}
    ELSE ChoiceTry(child, elements, k, resolveElementRef(elements[k].Ref))

\* The outer loop of validateChoice from child i on: the set of
\* [validChoices, out].
ChoiceChildren(children, elements, i) ==
    IF i > Len(children) THEN {[validChoices |-> 0, out |-> Out(<<>>)]}
    ELSE {[validChoices |-> (IF a.found THEN 1 ELSE 0) + r.validChoices,
           out |-> Cat(a.out, r.out)] :
             a \in ChoiceAlternatives(children[i], elements, 1),
             r \in ChoiceChildren(children, elements, i + 1)}

\* a slip: the occurrence bounds are read from the first alternative when it
\* states any
validateChoiceMemberBounds(children, choice) ==
    UNION {CatSets(IF choice.Choice # Nil
                   THEN validateChoice(children, choice.Choice[1])
                   ELSE {Out(<<>>)},
                   {Cat(l.out,
                        Out(OccurrenceErrors("choice group", l.validChoices,
                                MinOccursOf(IF Len(choice.Elements) > 0
                                               /\ choice.Elements[1].MinOccurs # <<>>
                                            THEN choice.Elements[1].MinOccurs
                                            ELSE choice.MinOccurs),
                                MaxOccursOf(IF Len(choice.Elements) > 0
                                               /\ choice.Elements[1].MaxOccurs # <<>>
                                            THEN choice.Elements[1].MaxOccurs
                                            ELSE choice.MaxOccurs))))}) :
              l \in IF Len(choice.Elements) > 0
                    THEN ChoiceChildren(children, choice.Elements, 1)
                    ELSE {[validChoices |-> 0, out |-> Out(<<>>)]}}

validateChoice(children, choice) ==
    UNION {CatSets(IF choice.Choice # Nil
                   THEN validateChoice(children, choice.Choice[1])
                   ELSE {Out(<<>>)},
                   {Cat(l.out,
                        Out(OccurrenceErrors("choice group", l.validChoices,
                                             MinOccursOf(choice.MinOccurs),
                                             MaxOccursOf(choice.MaxOccurs))))}) :
              l \in IF Len(choice.Elements) > 0
                    THEN ChoiceChildren(children, choice.Elements, 1)
                    ELSE {[validChoices |-> 0, out |-> Out(<<>>)]}}

\* validateElement, the complex type looked up by name: the value of the
\* parameter xsdElem after the assignment
FillComplexType(xsdElem) ==
    IF xsdElem.ComplexType = Nil /\ xsdElem.Type # ""
    THEN [xsdElem EXCEPT !.ComplexType = findComplexType(xsdElem.Type)]
    ELSE xsdElem

\* a slip: the walk of a node stops after the first step that found errors
validateDeclaredShort(xmlNode, xsdElem) ==
    IF xsdElem.ComplexType # Nil
       /\ validateAttributes(xmlNode.Attributes, xsdElem.ComplexType[1].Attributes)
             # {Out(<<>>)}
    THEN validateAttributes(xmlNode.Attributes, xsdElem.ComplexType[1].Attributes)
    ELSE IF xmlNode.Content # <<>>
            /\ validateElementContent(xmlNode.Content, xsdElem).kind # "nil"
    THEN {ErrOutcome(validateElementContent(xmlNode.Content, xsdElem),
                     "invalid content in element '" \o xmlNode.Name \o "': ")}
    ELSE CatSets(IF xsdElem.ComplexType # Nil /\ xsdElem.ComplexType[1].Sequence # Nil
                 THEN validateSequence(xmlNode.Children, xsdElem.ComplexType[1].Sequence[1])
                 ELSE {Out(<<>>)},
                 IF xsdElem.ComplexType # Nil /\ xsdElem.ComplexType[1].Choice # Nil
                 THEN validateChoice(xmlNode.Children, xsdElem.ComplexType[1].Choice[1])
                 ELSE {Out(<<>>)})

\* a slip: the content is checked even when the node has none
validateDeclaredEmptyChecked(xmlNode, xsdElem) ==
    CatSets(
        CatSets(IF xsdElem.ComplexType # Nil
                THEN validateAttributes(xmlNode.Attributes,
                                        xsdElem.ComplexType[1].Attributes)
                ELSE {Out(<<>>)},
                {ErrOutcome(validateElementContent(xmlNode.Content, xsdElem),
                            "invalid content in element '" \o xmlNode.Name \o "': ")}),
        CatSets(IF xsdElem.ComplexType # Nil /\ xsdElem.ComplexType[1].Sequence # Nil
                THEN validateSequence(xmlNode.Children, xsdElem.ComplexType[1].Sequence[1])
                ELSE {Out(<<>>)},
                IF xsdElem.ComplexType # Nil /\ xsdElem.ComplexType[1].Choice # Nil
                THEN validateChoice(xmlNode.Children, xsdElem.ComplexType[1].Choice[1])
                ELSE {Out(<<>>)}))

\* validateElement from the attributes on; xsdElem is the local copy, which
\* has got the complex type found by name
validateDeclared(xmlNode, xsdElem) ==
    CatSets(
        CatSets(IF xsdElem.ComplexType # Nil
                THEN validateAttributes(xmlNode.Attributes,
                                        xsdElem.ComplexType[1].Attributes)
                ELSE {Out(<<>>)},
                IF xmlNode.Content # <<>>
                THEN {ErrOutcome(validateElementContent(xmlNode.Content, xsdElem),
                                 "invalid content in element '" \o xmlNode.Name \o "': ")}
                ELSE {Out(<<>>)}),
        CatSets(IF xsdElem.ComplexType # Nil /\ xsdElem.ComplexType[1].Sequence # Nil
                THEN validateSequence(xmlNode.Children, xsdElem.ComplexType[1].Sequence[1])
                ELSE {Out(<<>>)},
                IF xsdElem.ComplexType # Nil /\ xsdElem.ComplexType[1].Choice # Nil
                THEN validateChoice(xmlNode.Children, xsdElem.ComplexType[1].Choice[1])
                ELSE {Out(<<>>)}))

\* a slip: the mismatch is recorded and the node is checked all the same
NameMismatchGoesOn(xmlNode, xsdElem) ==
    CatSets({Out(<<"element name or namespace mismatch: expected '{" \o xsdElem.Namespace
                   \o "}" \o xsdElem.Name \o "', got '{" \o xmlNode.Namespace \o "}"
                   \o xmlNode.Name \o "'">>)},
            validateDeclared(xmlNode, FillComplexType(xsdElem)))

\* validateElement when the name-and-namespace check fails: one error, return
NameMismatch(xmlNode, xsdElem) ==
    {Out(<<"element name or namespace mismatch: expected '{" \o xsdElem.Namespace
           \o "}" \o xsdElem.Name \o "', got '{" \o xmlNode.Namespace \o "}"
           \o xmlNode.Name \o "'">>)}

\* validateElement for a definition with ref, res the resolution of the ref
validateReferenced(xmlNode, ref, res, seenRefs) ==
    IF ~res.ok THEN {Out(<<res.msg>>)}
    ELSE IF ref \in seenRefs THEN {Abort(StackOverflow)}
    ELSE validateElement(xmlNode, res.elem[1], seenRefs \cup {ref})

\* validateElement.  seenRefs holds the refs followed so far for this node: a
\* ref met again sends the recursion round for ever.
validateElement(xmlNode, xsdElem, seenRefs) ==
    IF xsdElem.Ref # <<>>
    THEN validateReferenced(xmlNode, xsdElem.Ref, resolveElementRef(xsdElem.Ref),
                            seenRefs)
    ELSE IF ~validateElementNameAndNS(xmlNode, xsdElem)
    THEN NameMismatch(xmlNode, xsdElem)
    ELSE validateDeclared(xmlNode, FillComplexType(xsdElem))

(***************************************************************************)
(* Validate.  What the caller gets back: [result, err, panic] with result  *)
(* and err nil-able as in the pair of values Go returns, and panic the     *)
(* reason the call never returned ("" when it did).                        *)
(***************************************************************************)
Returned(result, err) == [result |-> result, err |-> err, panic |-> ""]
Panicked(why) == [result |-> Nil, err |-> Nil, panic |-> why]

\* a slip: the flag is never cleared
NewResultKeepsValid(filename, errors) ==
    [Valid |-> TRUE, Filename |-> filename, Errors |-> errors]

\* the ValidationResult literal and the flag update that follows it
NewResult(filename, errors) ==
    [Valid |-> IF Len(errors) > 0 THEN FALSE ELSE TRUE,
     Filename |-> filename,
     Errors |-> errors]

\* Validate once the schema definition of the root is looked up
ValidateRoot(xmlNode, rootXsd) ==
    IF rootXsd = Nil
    THEN {Returned(Nil, <<"root element '{" \o xmlNode.Namespace \o "}"
                          \o xmlNode.Name \o "' not defined in schema">>)}
    ELSE {IF o.abort # "" THEN Panicked(o.abort)
          ELSE Returned(<<NewResult(xmlNode.Name, o.errs)>>, Nil) :
             o \in validateElement(xmlNode, rootXsd[1], {})}

\* Validate once ParseXML has returned
ValidateParsed(parsed) ==
    IF parsed.status = "panic" THEN {Panicked("slice bounds out of range")}
    ELSE IF parsed.status = "error"
    THEN {Returned(Nil, <<"failed to parse XML: XML syntax error">>)}
    ELSE IF parsed.node = Nil THEN {Panicked(NilDeref)}   \* xmlNode.Name on nil
    ELSE ValidateRoot(parsed.node[1],
                      findSchemaElementNS(parsed.node[1].Name, parsed.node[1].Namespace,
                                          schema.Elements))

ValidateOutcomes(xmlFile) == ValidateParsed(ParseXML(xmlFile))

\* a slip: the walk is handed the schema's element itself, and the complex
\* type it looks up stays in the schema
ElementWrittenThrough(elem) ==
    IF elem.Ref = <<>> THEN FillComplexType(elem) ELSE elem

\* The schema's element a walk was started on, once the walk is over.
\* Validate passes *rootXsd and validateElement takes an XSDElement by value,
\* so the assignment to xsdElem.ComplexType writes the walk's copy.
ElementAfterWalk(elem) == elem

\* v.schema after Validate has walked from the definition rootXsd
SchemaAfterWalk(rootXsd) ==
    IF rootXsd = Nil THEN schema
    ELSE [schema EXCEPT !.Elements =
             [i \in DOMAIN schema.Elements |->
                 IF schema.Elements[i] = rootXsd[1]
                 THEN ElementAfterWalk(schema.Elements[i])
                 ELSE schema.Elements[i]]]

\* v.schema after Validate, parsed the outcome of ParseXML
SchemaAfterValidate(parsed) ==
    IF parsed.status # "ok" \/ parsed.node = Nil THEN schema
    ELSE SchemaAfterWalk(findSchemaElementNS(parsed.node[1].Name,
                                             parsed.node[1].Namespace,
                                             schema.Elements))

(***************************************************************************)
(* Inputs: documents, written as trees and handed over as the token stream *)
(* the decoder delivers for them.                                          *)
(***************************************************************************)
RECURSIVE Flatten(_)
Flatten(ss) == IF ss = <<>> THEN <<>> ELSE Head(ss) \o Flatten(Tail(ss))

\* <name attrs>content children</name>
El(name, attrs, content, children) ==
    <<StartElement("", name, attrs)>>
    \o (IF content = <<>> THEN <<>> ELSE <<CharData(content)>>)
    \o Flatten(children)
    \o <<EndElement>>

\* all sequences over S of length at most n
RECURSIVE SeqsUpTo(_, _)
SeqsUpTo(S, n) ==
    IF n = 0 THEN {<<>>}
    ELSE LET shorter == SeqsUpTo(S, n - 1)
         IN  shorter \cup {Append(q, x) : q \in {t \in shorter : Len(t) = n - 1}, x \in S}

\* documents every validator is given: no element at all, malformed markup,
\* a root the schemas do not declare
EmptyDocument == <<OtherToken, CharData(<<"\n">>)>>
MalformedDocument == <<StartElement("", "book", <<>>), TokenError>>
UndeclaredRoot == El("memo", <<>>, <<"h", "i">>, <<>>)
CommonDocs == {EmptyDocument, MalformedDocument, UndeclaredRoot}

\* ---- occurrence family: a sequence with occurrence bounds and a ref member
MaxChildren == 3

Unbounded == <<"u", "n", "b", "o", "u", "n", "d", "e", "d">>
OccPairs == {<< <<>>, <<>> >>, << <<"0">>, <<>> >>, << <<>>, Unbounded >>,
             << <<"2">>, <<"3">> >>, << <<"0">>, Unbounded >>, << <<"x">>, <<"y">> >>}

SeqSchema(titleOcc, refOcc) ==
    XSDSchema("", "",
      << [XSDElement("book") EXCEPT !.ComplexType =
            <<XSDComplexType("", <<XSDSequence(<<
                [XSDElement("title") EXCEPT !.Type = "xs:string",
                                            !.MinOccurs = titleOcc[1],
                                            !.MaxOccurs = titleOcc[2]],
                [XSDElement("author") EXCEPT !.Type = "xs:string"],
                [XSDElement("") EXCEPT !.Ref = <<"i", "t", "e", "m">>,
                                       !.MinOccurs = refOcc[1],
                                       !.MaxOccurs = refOcc[2]] >>)>>, Nil, <<>>)>>],
         [XSDElement("item") EXCEPT !.Type = "xs:integer", !.MinOccurs = <<"2">>] >>,
      <<>>, <<>>)

SeqSchemas == {SeqSchema(t, r) : t \in OccPairs, r \in {<< <<>>, <<>> >>, << <<"0">>, <<"2">> >>}}

SeqChildKinds ==
    {El("title", <<>>, <<"G", "o">>, <<>>), El("author", <<>>, <<"A", "l">>, <<>>),
     El("item", <<>>, <<"7">>, <<>>), El("item", <<>>, <<"x">>, <<>>),
     El("note", <<>>, <<>>, <<>>)}

SeqDocs == {El("book", <<>>, <<>>, kids) : kids \in SeqsUpTo(SeqChildKinds, MaxChildren)}

\* ---- attribute family: required and optional attributes, one declared twice
AttrSchema(useId, useBadge, twice) ==
    XSDSchema("", "",
      << [XSDElement("employee") EXCEPT !.ComplexType =
            <<XSDComplexType("", Nil, Nil,
                (IF twice THEN <<XSDAttribute("id", "xs:string", "")>> ELSE <<>>)
                \o << XSDAttribute("id", "xs:positiveInteger", useId),
                      [XSDAttribute("dept", "", "optional") EXCEPT !.SimpleType =
                          <<XSDSimpleType("", <<[XSDRestriction("xs:string") EXCEPT
                              !.Enumeration = << <<"H", "R">>, <<"I", "T">> >>]>>)>>],
                      XSDAttribute("badge", "xs:string", useBadge) >>)>>] >>,
      <<>>, <<>>)

AttrSchemas ==
    {AttrSchema(u, b, t) : u \in {"required", "optional", ""}, b \in {"required", ""},
                           t \in BOOLEAN}

\* the values each attribute may carry; <<>> stands for "not written"
AttrOptions(name) ==
    CASE name = "id" -> {<<>>, <<<<"7">>>>, <<<<"0">>>>}
      [] name = "dept" -> {<<>>, <<<<"H", "R">>>>, <<<<"h", "r">>>>}
      [] name = "badge" -> {<<>>, <<<<"b">>>>}
      [] name = "extra" -> {<<>>, <<<<"1">>>>}

AttrOf(name, opt) == IF opt = <<>> THEN <<>> ELSE <<XAttr("", name, opt[1])>>

AttrDocs ==
    {El("employee",
        AttrOf("id", i) \o AttrOf("dept", d) \o AttrOf("badge", b) \o AttrOf("extra", e),
        <<>>, <<>>) :
       i \in AttrOptions("id"), d \in AttrOptions("dept"), b \in AttrOptions("badge"),
       e \in AttrOptions("extra")}

\* ---- restriction family: an element, or an attribute, restricted by pattern
\* and enumeration facets
MaxValueLen == 3

PatA == <<"[A-Z]", "-">>
PatB == <<"-", "[0-9]">>
PatCode == <<"[A-Z]", "{2}", "-", "[0-9]", "{3}">>
PatBad == <<"\\i", "\\c", "*">>
PatternLists ==
    {<<>>, <<PatA>>, <<PatA, PatB>>, <<PatB, PatA>>, <<PatCode>>, <<PatBad>>,
     <<PatA, PatBad>>, <<PatBad, PatB>>}

High == <<"h", "i", "g", "h">>
EnumLists ==
    {<<>>, <<High, <<"m", "e", "d", "i", "u", "m">>, <<"l", "o", "w">> >>,
     << <<"A", "-", "1">>, <<"-", "1">> >>}

Restrictions ==
    {[XSDRestriction("xs:string") EXCEPT !.Pattern = ps, !.Enumeration = es] :
        ps \in PatternLists, es \in EnumLists}

\* <xs:element name="code"><xs:simpleType><xs:restriction .../>
ContentRestrSchema(r) ==
    XSDSchema("", "",
      << [XSDElement("code") EXCEPT !.SimpleType = <<XSDSimpleType("", <<r>>)>>] >>,
      <<>>, <<>>)

\* <xs:element name="code"><xs:complexType><xs:attribute name="v"><xs:simpleType>...
AttrRestrSchema(r) ==
    XSDSchema("", "",
      << [XSDElement("code") EXCEPT !.ComplexType =
            <<XSDComplexType("", Nil, Nil,
                <<[XSDAttribute("v", "", "") EXCEPT !.SimpleType =
                      <<XSDSimpleType("", <<r>>)>>]>>)>>] >>,
      <<>>, <<>>)

RestrSchemas ==
    {ContentRestrSchema(r) : r \in Restrictions}
    \cup {AttrRestrSchema(r) : r \in Restrictions}

ValueAlphabet == {"A", "-", "1"}
PickedValues ==
    {<<"A", "B", "-", "1", "2", "3">>, <<"1", "2", "3", "-", "A", "B">>,
     <<"x", "x", "A", "B", "-", "1", "2", "3", "y", "y">>,
     High, <<"H", "i", "g", "h">>, <<" ", "h", "i", "g", "h">>,
     <<"u", "r", "g", "e", "n", "t">>, <<"l", "o", "w">>}
Values == SeqsUpTo(ValueAlphabet, MaxValueLen) \cup PickedValues

RestrDocs ==
    {El("code", <<>>, v, <<>>) : v \in Values}
    \cup {El("code", <<XAttr("", "v", v)>>, <<>>, <<>>) : v \in Values}

\* ---- simple types without a restriction: a list and a union
NoRestrSchema(st) ==
    XSDSchema("", "", << [XSDElement("tags") EXCEPT !.SimpleType = <<st>>] >>, <<>>, <<>>)

NoRestrSchemas ==
    {NoRestrSchema([XSDSimpleType("", Nil) EXCEPT !.List = <<XSDList("xs:string")>>]),
     NoRestrSchema([XSDSimpleType("", Nil) EXCEPT
                       !.Union = <<XSDUnion(<<"xs:string", "xs:integer">>)>>]),
     NoRestrSchema(XSDSimpleType("", <<XSDRestriction("xs:string")>>))}

NoRestrDocs == {El("tags", <<>>, v, <<>>) : v \in {<<>>, <<"a">>, <<"a", " ", "b">>}}

\* ---- numeric family: an element restricted by numeric bounds, the base type
\* written with and without the xs: prefix
NumBases == {"xs:integer", "integer", "xs:decimal", "double"}

NumRestrictions ==
    {[XSDRestriction(b) EXCEPT !.MinInclusive = mi, !.MaxInclusive = ma,
                               !.MinExclusive = me, !.MaxExclusive = mx] :
        b \in NumBases, mi \in {<<>>, <<"1">>, <<"x">>}, ma \in {<<>>, <<"5">>},
        me \in {<<>>, <<"0">>}, mx \in {<<>>, <<"5">>}}

\* <xs:element name="price"><xs:simpleType><xs:restriction base=...>
NumSchema(r) ==
    XSDSchema("", "",
      << [XSDElement("price") EXCEPT !.SimpleType = <<XSDSimpleType("", <<r>>)>>] >>,
      <<>>, <<>>)

NumSchemas == {NumSchema(r) : r \in NumRestrictions}

NumValues ==
    {<<"0">>, <<"1">>, <<"5">>, <<"6">>, <<"-", "1">>, <<"2", ".", "5">>, <<"a", "b">>}

NumDocs == {El("price", <<>>, v, <<>>) : v \in NumValues}

\* ---- chain family: the element's type T restricts the user-defined type U,
\* which restricts a built-in type; types and refs that lead back to themselves
ChainUpper ==
    {XSDRestriction("xs:integer"),
     [XSDRestriction("xs:integer") EXCEPT !.MinInclusive = <<"1">>],
     [XSDRestriction("xs:string") EXCEPT !.MaxLength = <<"1">>],
     XSDRestriction("T")}

ChainLower ==
    {XSDRestriction("U"),
     [XSDRestriction("U") EXCEPT !.MaxInclusive = <<"5">>],
     [XSDRestriction("U") EXCEPT !.MinExclusive = <<"0">>],
     [XSDRestriction("U") EXCEPT !.Enumeration = << <<"1">>, <<"6">> >>],
     XSDRestriction("T")}

ChainSchema(t, u) ==
    XSDSchema("", "",
      << [XSDElement("qty") EXCEPT !.Type = "T"],
         [XSDElement("alias") EXCEPT !.Ref = <<"m", "i", "d">>],
         [XSDElement("mid") EXCEPT !.Ref = <<"q", "t", "y">>],
         [XSDElement("ping") EXCEPT !.Ref = <<"p", "o", "n", "g">>],
         [XSDElement("pong") EXCEPT !.Ref = <<"p", "i", "n", "g">>] >>,
      <<>>,
      << XSDSimpleType("T", <<t>>), XSDSimpleType("U", <<u>>) >>)

ChainSchemas == {ChainSchema(t, u) : t \in ChainLower, u \in ChainUpper}

ChainDocs ==
    {El(n, <<>>, v, <<>>) : n \in {"qty", "alias"}, v \in NumValues \cup {<<>>}}
    \cup {El("ping", <<>>, <<>>, <<>>)}

\* ---- walk family: a root of a named complex type with a required
\* attribute, a sequence and (or not) a choice, in the target namespace urn:a,
\* and a second top-level element that refers to it; children in that
\* namespace and in another one
MaxKids == 2

\* <space:name attrs>content children</space:name>
ElNS(space, name, attrs, content, children) ==
    <<StartElement(space, name, attrs)>>
    \o (IF content = <<>> THEN <<>> ELSE <<CharData(content)>>)
    \o Flatten(children)
    \o <<EndElement>>

WalkItem ==
    [XSDElement("item") EXCEPT
        !.MaxOccurs = Unbounded,
        !.ComplexType =
            <<XSDComplexType("",
                <<XSDSequence(<<[XSDElement("part") EXCEPT !.Type = "xs:integer"]>>)>>,
                Nil,
                <<XSDAttribute("n", "xs:positiveInteger", "required")>>)>>]

WalkChoice ==
    XSDChoice(<<>>, <<>>, Nil,
              <<[XSDElement("gift") EXCEPT !.Type = "xs:string"],
                [XSDElement("wrap") EXCEPT !.Type = "xs:string"]>>)

WalkSchema(form, choice) ==
    XSDSchema("urn:a", form,
      << [XSDElement("order") EXCEPT !.Type = "OrderType"],
         [XSDElement("alias") EXCEPT !.Ref = <<"o", "r", "d", "e", "r">>] >>,
      << XSDComplexType("OrderType", <<XSDSequence(<<WalkItem>>)>>, choice,
                        <<XSDAttribute("id", "xs:positiveInteger", "required")>>) >>,
      <<>>)

WalkSchemas == {WalkSchema(f, c) : f \in {"qualified", ""}, c \in {Nil, <<WalkChoice>>}}

WalkKidKinds ==
    {ElNS("urn:a", "item", <<XAttr("", "n", <<"1">>)>>, <<>>,
          <<ElNS("urn:a", "part", <<>>, <<"1">>, <<>>)>>),
     ElNS("urn:b", "item", <<XAttr("", "n", <<"0">>)>>, <<>>, <<>>),
     ElNS("urn:b", "item", <<>>, <<>>, <<ElNS("urn:b", "part", <<>>, <<"x">>, <<>>)>>),
     ElNS("urn:a", "gift", <<>>, <<"g">>, <<>>)}

WalkDocs ==
    {ElNS("urn:a", n, a, c, kids) :
        n \in {"order", "alias"},
        a \in {<<>>, <<XAttr("", "id", <<"7">>)>>, <<XAttr("", "id", <<"0">>)>>},
        c \in {<<>>, <<"h", "i">>},
        kids \in SeqsUpTo(WalkKidKinds, MaxKids)}

\* ---- choice family: a root whose children are ruled by one choice, with
\* occurrence bounds on the choice and on its alternatives, an alternative
\* given by ref, and a choice without element alternatives
ChoiceMembers ==
    {<< [XSDElement("card") EXCEPT !.Type = "xs:integer"],
        [XSDElement("cash") EXCEPT !.Type = "xs:string"] >>,
     << [XSDElement("card") EXCEPT !.Type = "xs:integer", !.MinOccurs = <<"2">>,
                                   !.MaxOccurs = <<"2">>],
        [XSDElement("card") EXCEPT !.Type = "xs:string"] >>,
     << [XSDElement("") EXCEPT !.Ref = <<"c", "a", "s", "h">>],
        [XSDElement("card") EXCEPT !.Type = "xs:integer"] >>,
     << [XSDElement("") EXCEPT !.Ref = <<"c", "o", "i", "n">>],
        [XSDElement("card") EXCEPT !.Type = "xs:integer"] >>,
     <<>>}

ChoiceOccPairs ==
    {<< <<>>, <<>> >>, << <<"0">>, Unbounded >>, << <<"2">>, <<"3">> >>,
     << <<"x">>, <<"y">> >>, << <<"0">>, <<"0">> >>}

ChoiceSchema(occ, members) ==
    XSDSchema("", "",
      << [XSDElement("pay") EXCEPT !.ComplexType =
            <<XSDComplexType("", Nil, <<XSDChoice(occ[1], occ[2], Nil, members)>>, <<>>)>>],
         [XSDElement("cash") EXCEPT !.Type = "xs:string"] >>,
      <<>>, <<>>)

ChoiceSchemas == {ChoiceSchema(o, m) : o \in ChoiceOccPairs, m \in ChoiceMembers}

ChoiceKidKinds ==
    {El("card", <<>>, <<"7">>, <<>>), El("card", <<>>, <<"x">>, <<>>),
     El("cash", <<>>, <<"c">>, <<>>), El("tip", <<>>, <<>>, <<>>)}

ChoiceDocs == {El("pay", <<>>, <<>>, kids) : kids \in SeqsUpTo(ChoiceKidKinds, MaxChildren)}

\* ---- nested-choice family: the root's choice holds another choice; either
\* may be without element alternatives and has occurrence bounds of its own
NestOuterMembers ==
    {<< [XSDElement("card") EXCEPT !.Type = "xs:integer"],
        [XSDElement("cash") EXCEPT !.Type = "xs:string"] >>,
     << [XSDElement("card") EXCEPT !.Type = "xs:integer"] >>,
     <<>>}
NestInnerMembers ==
    {<< [XSDElement("card") EXCEPT !.Type = "xs:string"],
        [XSDElement("cash") EXCEPT !.Type = "xs:string"] >>,
     << [XSDElement("cash") EXCEPT !.Type = "xs:string"] >>,
     <<>>}
NestOuterOcc == {<< <<>>, <<>> >>, << <<"0">>, Unbounded >>}
NestInnerOcc == {<< <<>>, <<>> >>, << <<"0">>, Unbounded >>, << <<"2">>, <<"3">> >>}

NestSchema(outerOcc, outer, innerOcc, inner) ==
    XSDSchema("", "",
      << [XSDElement("pay") EXCEPT !.ComplexType =
            <<XSDComplexType("", Nil,
                <<XSDChoice(outerOcc[1], outerOcc[2],
                            <<XSDChoice(innerOcc[1], innerOcc[2], Nil, inner)>>,
                            outer)>>,
                <<>>)>>] >>,
      <<>>, <<>>)

NestSchemas ==
    {NestSchema(oo, om, io, im) : oo \in NestOuterOcc, om \in NestOuterMembers,
                                  io \in NestInnerOcc, im \in NestInnerMembers}

\* ---- ref family: top-level elements that refer to another one, by a plain
\* or a prefixed name, to one declared twice, to none, or to a referring one
RefStrings ==
    {<<"i", "t", "e", "m">>, <<"t", "n", "s", ":", "i", "t", "e", "m">>,
     <<"g", "o", "n", "e">>, <<"t", "n", "s", ":", "g", "o", "n", "e">>,
     <<"t", "n", "s", ":", "a", "l", "i", "a", "s">>}

RefSchema(aliasRef, twiceRef) ==
    XSDSchema("", "",
      << [XSDElement("alias") EXCEPT !.Ref = aliasRef],
         [XSDElement("item") EXCEPT !.Type = "xs:integer"],
         [XSDElement("twice") EXCEPT !.Ref = twiceRef],
         [XSDElement("item") EXCEPT !.Type = "xs:boolean"],
         [XSDElement("tns:item") EXCEPT !.Type = "xs:boolean"] >>,
      <<>>, <<>>)

RefSchemas ==
    {RefSchema(a, t) : a \in RefStrings \ {<<"t", "n", "s", ":", "a", "l", "i", "a", "s">>},
                       t \in RefStrings}

RefValues == {<<>>, <<"7">>, <<"x">>, <<"t", "r", "u", "e">>}
RefDocs ==
    {El(n, <<>>, v, kids) : n \in {"alias", "twice", "item"}, v \in RefValues,
                            kids \in {<<>>, <<El("item", <<>>, <<"7">>, <<>>)>>}}

\* ---- text family: an element whose text is checked against a built-in type
\* or an inline simple type, alone and as a member of a sequence; its text
\* comes in chunks, blank or not, with comments and child elements between
MaxChunks == 3

TextDefs ==
    {[XSDElement("n") EXCEPT !.Type = "xs:integer"],
     [XSDElement("n") EXCEPT !.Type = "xs:positiveInteger"],
     [XSDElement("n") EXCEPT !.Type = "xs:boolean"],
     [XSDElement("n") EXCEPT !.SimpleType =
         <<XSDSimpleType("", <<[XSDRestriction("xs:string") EXCEPT
                                   !.MinLength = <<"1">>]>>)>>],
     [XSDElement("n") EXCEPT !.SimpleType =
         <<XSDSimpleType("", <<[XSDRestriction("xs:string") EXCEPT
                                   !.Enumeration = <<High>>]>>)>>],
     [XSDElement("n") EXCEPT !.SimpleType =
         <<[XSDSimpleType("", Nil) EXCEPT !.List = <<XSDList("xs:string")>>]>>]}

TextSchema(d) ==
    XSDSchema("", "",
      << d,
         [XSDElement("box") EXCEPT !.ComplexType =
            <<XSDComplexType("", <<XSDSequence(<<
                [d EXCEPT !.MinOccurs = <<"0">>, !.MaxOccurs = Unbounded] >>)>>,
                Nil, <<>>)>>] >>,
      <<>>, <<>>)

TextSchemas == {TextSchema(d) : d \in TextDefs}

\* what the decoder delivers between a start tag and its end tag
TextPieces ==
    {<<CharData(<<" ">>)>>, <<CharData(<<"\n", " ">>)>>, <<CharData(<<"7">>)>>,
     <<CharData(<<" ", "h", "i">>)>>, <<CharData(<<"g", "h", " ">>)>>,
     <<OtherToken>>, El("b", <<>>, <<>>, <<>>)}

Wrapped(name, pieces) == <<StartElement("", name, <<>>)>> \o Flatten(pieces) \o <<EndElement>>

TextDocs ==
    {Wrapped("n", ps) : ps \in SeqsUpTo(TextPieces, MaxChunks)}
    \cup {Wrapped("box", kids) :
            kids \in SeqsUpTo({Wrapped("n", <<>>), Wrapped("n", <<<<CharData(<<" ">>)>>>>),
                               Wrapped("n", <<<<CharData(<<"x">>)>>>>)}, 2)}

\* ---- facet family: an element restricted by length and numeric facets whose
\* declared values are numbers or not
FacetRestrictions ==
    {[XSDRestriction(b) EXCEPT !.Length = le, !.MinLength = mn, !.MaxLength = mx,
                               !.MinInclusive = lo, !.MaxInclusive = hi,
                               !.MinExclusive = lo, !.MaxExclusive = hi] :
        b \in {"xs:string", "xs:integer"},
        le \in {<<>>, <<"x">>, <<"2">>}, mn \in {<<>>, <<"x">>, <<"2">>},
        mx \in {<<>>, <<"x">>, <<"2">>},
        lo \in {<<>>, <<"x">>, <<"0">>}, hi \in {<<>>, <<"1", "e">>}}

FacetSchema(r) ==
    XSDSchema("", "",
      << [XSDElement("v") EXCEPT !.SimpleType = <<XSDSimpleType("", <<r>>)>>] >>,
      <<>>, <<>>)

FacetSchemas == {FacetSchema(r) : r \in FacetRestrictions}

FacetDocs == {El("v", <<>>, c, <<>>) : c \in {<<"7">>, <<"4", "2">>, <<"-", "1">>, <<"a", "b", "c">>}}

\* ---- positive family: an element declared positiveInteger or integer, the
\* type name written with and without the xs: prefix
PosTypes == {"xs:positiveInteger", "positiveInteger", "xs:integer", "integer"}

PosSchema(t) ==
    XSDSchema("", "", << [XSDElement("count") EXCEPT !.Type = t] >>, <<>>, <<>>)

PosSchemas == {PosSchema(t) : t \in PosTypes}

PosAlphabet == {"0", "5", "-", "+", "x"}
PosDocs == {El("count", <<>>, v, <<>>) : v \in SeqsUpTo(PosAlphabet, MaxValueLen)}

\* ---- root family: top-level elements with and without a namespace of their
\* own, under each form policy and with or without a target namespace, and
\* roots in the target namespace, in another one and in none
RootElements ==
    {<< [XSDElement("r") EXCEPT !.Type = "xs:string"] >>,
     << [XSDElement("r") EXCEPT !.Type = "xs:string", !.Namespace = "urn:b"] >>,
     << [XSDElement("r") EXCEPT !.Type = "xs:string", !.Namespace = "urn:b"],
        [XSDElement("r") EXCEPT !.Type = "xs:integer"] >>}

RootSchemas ==
    {XSDSchema(t, f, es, <<>>, <<>>) :
        t \in {"", "urn:a"}, f \in {"qualified", "unqualified", ""}, es \in RootElements}

\* inputs without any element: nothing at all, blank text, a prolog and a
\* comment
NoElementDocs ==
    {<<>>, <<CharData(<<" ", "\n">>)>>, <<OtherToken>>,
     <<OtherToken, CharData(<<"\n">>), OtherToken, CharData(<<"\n">>)>>}

RootDocs ==
    {ElNS(space, n, <<>>, c, <<>>) :
        space \in {"", "urn:a", "urn:b", "urn:c"}, n \in {"r", "s"},
        c \in {<<>>, <<"7">>, <<"x">>}}
    \cup NoElementDocs

\* ---- namespace family: documents as written, with prefixes and namespace
\* declarations, and the tokens the decoder delivers for them.  The decoder
\* resolves names itself: a declared prefix becomes its URI, an unprefixed
\* element gets the default namespace in scope, an undeclared prefix and the
\* names of namespace declarations stay as written.
Src(prefix, local, attrs, kids) ==
    [prefix |-> prefix, local |-> local, attrs |-> attrs, kids |-> kids]
SrcAttr(prefix, local, value) == [prefix |-> prefix, local |-> local, value |-> value]

RECURSIVE InScope(_, _)
InScope(ns, attrs) ==
    IF attrs = <<>> THEN ns
    ELSE InScope(IF Head(attrs).prefix = "xmlns"
                  THEN MapPut(ns, Head(attrs).local, Str(Head(attrs).value))
                  ELSE IF Head(attrs).prefix = "" /\ Head(attrs).local = "xmlns"
                  THEN MapPut(ns, "", Str(Head(attrs).value))
                  ELSE ns,
                  Tail(attrs))

Translated(prefix, scope, isElement) ==
    IF prefix = "xmlns" THEN prefix
    ELSE IF prefix = "" /\ ~isElement THEN ""
    ELSE IF prefix \in DOMAIN scope THEN scope[prefix]
    ELSE prefix

RECURSIVE DecodedIn(_, _)
DecodedIn(e, scope) ==
    <<StartElement(Translated(e.prefix, scope, TRUE), e.local,
                   [i \in 1..Len(e.attrs) |->
                       XAttr(Translated(e.attrs[i].prefix, scope, FALSE),
                             e.attrs[i].local, e.attrs[i].value)])>>
    \o Flatten([i \in 1..Len(e.kids) |-> DecodedIn(e.kids[i], InScope(scope, e.kids[i].attrs))])
    \o <<EndElement>>
Decoded(e) == DecodedIn(e, InScope(EmptyMap, e.attrs))

UrnD == <<"u", "r", "n", ":", "d">>
UrnE == <<"u", "r", "n", ":", "e">>
UrnP == <<"u", "r", "n", ":", "p">>
UrnQ == <<"u", "r", "n", ":", "q">>
NsRootAttrs ==
    {<<>>, <<SrcAttr("", "xmlns", UrnD)>>, <<SrcAttr("xmlns", "p", UrnP)>>,
     <<SrcAttr("", "xmlns", UrnD), SrcAttr("xmlns", "p", UrnP)>>,
     <<SrcAttr("xmlns", "p", UrnP), SrcAttr("p", "xmlns", UrnE)>>,
     <<SrcAttr("xmlns", "p", UrnP), SrcAttr("p", "id", <<"7">>)>>}
NsKidAttrs ==
    {<<>>, <<SrcAttr("", "xmlns", UrnE)>>, <<SrcAttr("xmlns", "p", UrnQ)>>,
     <<SrcAttr("", "xmlns", <<>>)>>}
NsPrefixes == {"", "p"}

NsSources ==
    {Src(rp, "r", ra,
         <<Src(kp, "k", ka, <<Src(gp1, "g", <<>>, <<>>)>>), Src(sp, "s", <<>>, <<>>)>>) :
        rp \in NsPrefixes, ra \in NsRootAttrs, kp \in NsPrefixes, ka \in NsKidAttrs,
        gp1 \in NsPrefixes, sp \in NsPrefixes}
NsDocs == {Decoded(e) : e \in NsSources}

NsSchemas ==
    {XSDSchema(t, "qualified", << [XSDElement("r") EXCEPT !.Type = "xs:string"] >>, <<>>, <<>>) :
        t \in {"", "urn:d", "urn:p"}}

Schemas == SeqSchemas \cup AttrSchemas \cup RestrSchemas \cup NoRestrSchemas

DocsFor(s) ==
    CommonDocs
    \cup (IF s \in SeqSchemas THEN SeqDocs ELSE {})
    \cup (IF s \in AttrSchemas THEN AttrDocs ELSE {})
    \cup (IF s \in RestrSchemas THEN RestrDocs ELSE {})
    \cup (IF s \in NoRestrSchemas THEN NoRestrDocs ELSE {})
    \cup (IF s \in NumSchemas THEN NumDocs ELSE {})
    \cup (IF s \in ChainSchemas THEN ChainDocs ELSE {})
    \cup (IF s \in WalkSchemas THEN WalkDocs ELSE {})
    \cup (IF s \in ChoiceSchemas THEN ChoiceDocs ELSE {})
    \cup (IF s \in NestSchemas THEN ChoiceDocs ELSE {})
    \cup (IF s \in RefSchemas THEN RefDocs ELSE {})
    \cup (IF s \in TextSchemas THEN TextDocs ELSE {})
    \cup (IF s \in FacetSchemas THEN FacetDocs ELSE {})
    \cup (IF s \in PosSchemas THEN PosDocs ELSE {})
    \cup (IF s \in RootSchemas THEN RootDocs ELSE {})
    \cup (IF s \in NsSchemas THEN NsDocs ELSE {})

(***************************************************************************)
(* The state machine: one validator, shared by two callers.  A document    *)
(* arrives and each caller validates it, any number of times.  A walk      *)
(* reads only the schema and its own locals, and never calls GetPattern,   *)
(* so a call is one step.  patterns is the validator's pattern cache, gp   *)
(* the frame of each goroutine's GetPattern call, asked the facet strings  *)
(* of the calls that have returned.                                        *)
(***************************************************************************)
Callers == {"c1", "c2"}

\* a goroutine outside GetPattern
IdleFrame == [pc |-> "idle", n |-> 0, pattern |-> <<>>, compiled |-> Nil, ret |-> Nil]

NewPatternCache == EmptyMap

InitWith(schemas) ==
    /\ schema \in schemas
    /\ doc = Nil
    /\ ret = [c \in Callers |-> Nil]
    /\ patterns = NewPatternCache
    /\ gp = [g \in Callers |-> IdleFrame]
    /\ asked = {}

Init == InitWith(Schemas)

\* the callers are handed a document
Submit ==
    /\ doc = Nil
    /\ \E input \in DocsFor(schema) : doc' = <<input>>
    /\ UNCHANGED <<schema, ret, patterns, gp, asked>>

\* v.Validate(xmlFile) by caller c
Validate(c) ==
    /\ doc # Nil
    /\ \E r \in ValidateOutcomes(doc[1]) : ret' = [ret EXCEPT ![c] = <<r>>]
    /\ schema' = SchemaAfterValidate(ParseXML(doc[1]))
    /\ UNCHANGED <<doc, patterns, gp, asked>>

Next ==
    \/ Submit
    \/ \E c \in Callers : Validate(c)

Spec == Init /\ [][Next]_vars

\* the same machine with the validator built from one family of schemas
SpecSeq == InitWith(SeqSchemas) /\ [][Next]_vars
SpecAttr == InitWith(AttrSchemas) /\ [][Next]_vars
SpecRestr == InitWith(RestrSchemas) /\ [][Next]_vars
SpecNum == InitWith(NumSchemas) /\ [][Next]_vars
SpecChain == InitWith(ChainSchemas) /\ [][Next]_vars
SpecWalk == InitWith(WalkSchemas) /\ [][Next]_vars
SpecChoice == InitWith(ChoiceSchemas) /\ [][Next]_vars
SpecNest == InitWith(NestSchemas) /\ [][Next]_vars
SpecRef == InitWith(RefSchemas) /\ [][Next]_vars
SpecText == InitWith(TextSchemas) /\ [][Next]_vars
SpecFacet == InitWith(FacetSchemas) /\ [][Next]_vars
SpecPos == InitWith(PosSchemas) /\ [][Next]_vars
SpecRoot == InitWith(RootSchemas) /\ [][Next]_vars
SpecNs == InitWith(NsSchemas) /\ [][Next]_vars

(***************************************************************************)
(* The pattern cache (xsd.go).  GetPattern takes no lock, so goroutines    *)
(* sharing a validator interleave between its statements: the map lookup,  *)
(* the translation and compilation, the map assignment.  A map access that *)
(* runs while another goroutine is at a conflicting access is a data race: *)
(* the runtime may stop the process ("concurrent map writes"), or the      *)
(* access gets through and the write, or the entry read, may be lost.      *)
(***************************************************************************)
MaxCalls == 2

\* facet strings: the test's pattern, one that needs translating, an XSD name
\* pattern, and one whose translation regexp.Compile rejects
Facets == {PatCode, <<"\\d", "+">>, <<"\\i", "\\c", "*">>, <<"\\i">>}

\* the *regexp.Regexp that call n of goroutine g gets from regexp.Compile(expr)
Regexp(g, n, expr) == [by |-> g, call |-> n, expr |-> expr]

\* the frame f of a call that returns (compiled, err)
Return(f, compiled, err) ==
    [f EXCEPT !.pc = "done", !.ret = <<[compiled |-> compiled, err |-> err]>>]

\* the runtime has thrown: every goroutine is gone
Fatal == [g \in Callers |-> [gp[g] EXCEPT !.pc = "fatal"]]

\* another goroutine is about to run one of the statements pcs
Racing(g, pcs) == \E h \in Callers \ {g} : gp[h].pc \in pcs

\* a slip: the entry is stored under the translated expression
CacheStoreTranslated(m, pattern, compiled) == MapPut(m, compiled.expr, compiled)

\* pc.patterns[pattern] = compiled
CacheStore(m, pattern, compiled) == MapPut(m, pattern, compiled)

\* goroutine g calls GetPattern(p); alone: no other call is in progress
Call(g, p, alone) ==
    /\ gp[g].pc \in {"idle", "done"}
    /\ gp[g].n < MaxCalls
    /\ alone => \A h \in Callers : gp[h].pc \in {"idle", "done"}
    /\ gp' = [gp EXCEPT ![g] = [pc |-> "lookup", n |-> @.n + 1, pattern |-> p,
                                compiled |-> Nil, ret |-> Nil]]
    /\ UNCHANGED <<schema, doc, ret, patterns, asked>>

\* what compiled, ok := pc.patterns[pattern] can deliver to g
LookupOutcomes(g) ==
    {IF gp[g].pattern \in DOMAIN patterns
     THEN [kind |-> "hit", compiled |-> <<patterns[gp[g].pattern]>>]
     ELSE [kind |-> "miss", compiled |-> Nil]}
    \cup (IF Racing(g, {"store"})
          THEN {[kind |-> "miss", compiled |-> Nil], [kind |-> "fatal", compiled |-> Nil]}
          ELSE {})

\* if compiled, ok := pc.patterns[pattern]; ok { return compiled, nil }
Lookup(g) ==
    /\ gp[g].pc = "lookup"
    /\ \E o \in LookupOutcomes(g) :
          /\ gp' = CASE o.kind = "fatal" -> Fatal
                     [] o.kind = "hit" -> [gp EXCEPT ![g] = Return(@, o.compiled, Nil)]
                     [] o.kind = "miss" -> [gp EXCEPT ![g].pc = "compile"]
          /\ asked' = IF o.kind = "hit" THEN asked \cup {gp[g].pattern} ELSE asked
    /\ UNCHANGED <<schema, doc, ret, patterns>>

\* the frame f of g once regexp.Compile(goPattern) has returned
Compiled(f, g, goPattern) ==
    IF Compile(goPattern).ok
    THEN [f EXCEPT !.pc = "store", !.compiled = <<Regexp(g, f.n, goPattern)>>]
    ELSE Return(f, Nil, <<"error parsing regexp">>)

\* goPattern := convertXSDPatternToGoRegex(pattern); regexp.Compile(goPattern)
CompilePattern(g) ==
    /\ gp[g].pc = "compile"
    /\ gp' = [gp EXCEPT ![g] = Compiled(@, g, convertXSDPatternToGoRegex(@.pattern))]
    /\ asked' = IF gp'[g].pc = "done" THEN asked \cup {gp[g].pattern} ELSE asked
    /\ UNCHANGED <<schema, doc, ret, patterns>>

\* what becomes of the map assignment of g
StoreOutcomes(g) ==
    {"written"} \cup (IF Racing(g, {"lookup", "store"}) THEN {"lost", "fatal"} ELSE {})

\* pc.patterns[pattern] = compiled; return compiled, nil
Store(g) ==
    /\ gp[g].pc = "store"
    /\ \E o \in StoreOutcomes(g) :
          /\ patterns' = IF o = "written"
                         THEN CacheStore(patterns, gp[g].pattern, gp[g].compiled[1])
                         ELSE patterns
          /\ gp' = IF o = "fatal" THEN Fatal
                   ELSE [gp EXCEPT ![g] = Return(@, @.compiled, Nil)]
          /\ asked' = IF o = "fatal" THEN asked ELSE asked \cup {gp[g].pattern}
    /\ UNCHANGED <<schema, doc, ret>>

\* GetPattern called by goroutines that share the validator
NextCache ==
    \/ \E g \in Callers, p \in Facets : Call(g, p, FALSE)
    \/ \E g \in Callers : Lookup(g) \/ CompilePattern(g) \/ Store(g)

\* GetPattern called again and again, one call at a time
NextCacheSeq ==
    \/ \E g \in Callers, p \in Facets : Call(g, p, TRUE)
    \/ \E g \in Callers : Lookup(g) \/ CompilePattern(g) \/ Store(g)

InitCache == InitWith({ContentRestrSchema([XSDRestriction("xs:string") EXCEPT
                                              !.Pattern = <<PatCode>>])})

SpecCache == InitCache /\ [][NextCache]_vars
SpecCacheSeq == InitCache /\ [][NextCacheSeq]_vars

(***************************************************************************)
(* Properties                                                              *)
(***************************************************************************)
Returns(c) == ret[c] # Nil /\ ret[c][1].panic = ""
HasResult(c) == ret[c] # Nil /\ ret[c][1].result # Nil
Result(c) == ret[c][1].result[1]
Errors(c) == Result(c).Errors
ErrorSet(c) == {Errors(c)[i] : i \in DOMAIN Errors(c)}
Occurrences(errs, msgs) == Cardinality({i \in DOMAIN errs : errs[i] \in msgs})

\* The setup of Validate for the document the callers hold: Nil when there is
\* no document, it does not parse, has no element, or its root has no
\* definition; else the root node and the definition Validate picks for it.
SetupOf(parsed) ==
    IF parsed.status # "ok" \/ parsed.node = Nil THEN Nil
    ELSE LET def == findSchemaElementNS(parsed.node[1].Name, parsed.node[1].Namespace,
                                        schema.Elements)
         IN  IF def = Nil THEN Nil ELSE <<[root |-> parsed.node[1], def |-> def[1]]>>
Setup == IF doc = Nil THEN Nil ELSE SetupOf(ParseXML(doc[1]))

\* C1: whenever Validate returns a ValidationResult, its validity flag is true
\* exactly when its error list is empty.
C1_ValidIffNoErrors ==
    \A c \in Callers : HasResult(c) => (Result(c).Valid <=> Errors(c) = <<>>)

C1_Witness ==
    /\ HasResult("c1") /\ ~Result("c1").Valid /\ Len(Errors("c1")) >= 2
    /\ HasResult("c2")

\* C2: once the document is parsed and its root definition found, Validate
\* returns a ValidationResult whatever the shape of the schema; the walk never
\* aborts.
C2_WalkAlwaysReturnsResult ==
    (\E c \in Callers : ret[c] # Nil /\ ~HasResult(c)) => Setup = Nil

\* the root of a parsed document has no top-level definition of its name
RootUndeclared(parsed) ==
    /\ parsed.status = "ok" /\ parsed.node # Nil
    /\ ~(\E i \in DOMAIN schema.Elements : schema.Elements[i].Name = parsed.node[1].Name)

\* C3: every call of Validate returns exactly one of a result and an error, and
\* an error without a result when the root is not declared.
C3_ExactlyOneOfResultAndError ==
    \A c \in Callers :
        ret[c] # Nil =>
            /\ Returns(c)
            /\ (ret[c][1].result # Nil) # (ret[c][1].err # Nil)
            /\ RootUndeclared(ParseXML(doc[1]))
               => (ret[c][1].result = Nil /\ ret[c][1].err # Nil)

\* C4: two validations of the same document by the same validator give the same
\* result: the same flag and the same error strings in the same order.
C4_SameDocumentSameResult ==
    \A c1, c2 \in Callers :
        (HasResult(c1) /\ HasResult(c2)) => Result(c1) = Result(c2)

\* ---- occurrence messages, as the description words them
TooFew(name, n, m) ==
    "element '" \o name \o "' occurs " \o ToString(n) \o " times, minimum required is "
    \o ToString(m)
TooMany(name, n, m) ==
    "element '" \o name \o "' occurs " \o ToString(n) \o " times, maximum allowed is "
    \o ToString(m)
OccLiterals == {0, 1, 2, 3, MaxInt32}
AnyTooFew(name) == {TooFew(name, n, m) : n \in 0..(MaxChildren + 1), m \in OccLiterals}
AnyTooMany(name) == {TooMany(name, n, m) : n \in 0..(MaxChildren + 1), m \in OccLiterals}

\* the literal integer of an occurrence attribute, the default 1 without one
DeclaredOccurs(s) == IF s # <<>> /\ Atoi(s).ok THEN Atoi(s).val ELSE 1

HasSequence(def) ==
    def.Ref = <<>> /\ def.ComplexType # Nil /\ def.ComplexType[1].Sequence # Nil
Members(def) == def.ComplexType[1].Sequence[1].Elements
NamedChildren(root, name) ==
    Cardinality({k \in DOMAIN root.Children : root.Children[k].Name = name})

\* the occurrence errors the description asks for one member, in errs
MemberOccurrence(d, count, min, max, errs) ==
    LET tooFew == count < min
        tooMany == d.MaxOccurs # Unbounded /\ count > max
        errSet == {errs[i] : i \in DOMAIN errs}
    IN  /\ Occurrences(errs, AnyTooFew(d.Name)) = (IF tooFew THEN 1 ELSE 0)
        /\ tooFew => TooFew(d.Name, count, min) \in errSet
        /\ Occurrences(errs, AnyTooMany(d.Name)) = (IF tooMany THEN 1 ELSE 0)
        /\ tooMany => TooMany(d.Name, count, max) \in errSet

\* C5: for every member of a sequence, a too-few error is reported exactly when
\* the number of children of that name is below minOccurs (default 1), a
\* too-many error exactly when it is above maxOccurs (default 1, "unbounded" no
\* limit); the message gives the count and the bound.
C5_SequenceOccurrence ==
    (\E c \in Callers : HasResult(c)) =>
        LET s == Setup
        IN  (s # Nil /\ HasSequence(s[1].def)) =>
                \A i \in DOMAIN Members(s[1].def) :
                    LET d == Members(s[1].def)[i]
                    IN  \A c \in Callers :
                           HasResult(c) =>
                              MemberOccurrence(d, NamedChildren(s[1].root, d.Name),
                                               DeclaredOccurs(d.MinOccurs),
                                               DeclaredOccurs(d.MaxOccurs), Errors(c))

C5_Witness ==
    /\ HasResult("c1")
    /\ TooFew("title", 1, 2) \in ErrorSet("c1")
    /\ TooMany("author", 2, 1) \in ErrorSet("c1")
    /\ TooFew("title", 0, 1) \notin ErrorSet("c1")

\* what the description asks for a member that refers to the element `target`
RefMemberHolds(d, target, count, errs) ==
    /\ \A i \in DOMAIN errs : errs[i] # "unexpected element '" \o target.Name \o "'"
    /\ count >= DeclaredOccurs(d.MinOccurs) => Occurrences(errs, AnyTooFew(d.Name)) = 0

\* C6: a child named like the element a sequence member refers to is validated
\* against that element, counted toward the bounds of the referring member, and
\* not reported as unexpected.
C6_RefMemberMatchesReferencedName ==
    (\E c \in Callers : HasResult(c)) =>
        LET s == Setup
        IN  (s # Nil /\ HasSequence(s[1].def)) =>
                \A i \in DOMAIN Members(s[1].def) :
                    LET d == Members(s[1].def)[i]
                        target == resolveElementRef(d.Ref)
                    IN  (d.Ref # <<>> /\ target.ok
                         /\ NamedChildren(s[1].root, target.elem[1].Name) > 0) =>
                            \A c \in Callers :
                               HasResult(c) =>
                                  RefMemberHolds(d, target.elem[1],
                                                 NamedChildren(s[1].root,
                                                               target.elem[1].Name),
                                                 Errors(c))

\* ---- attribute messages
MissingAttr(n) == "missing required attribute '" \o n \o "'"
UnexpectedAttr(n) == "unexpected attribute '" \o n \o "'"

HasAttributes(def) == def.Ref = <<>> /\ def.ComplexType # Nil
AttrDecls(def) == def.ComplexType[1].Attributes
Declared(decls, n) == \E i \in DOMAIN decls : decls[i].Name = n
Required(decls, n) == \E i \in DOMAIN decls : decls[i].Name = n /\ decls[i].Use = "required"

\* the attribute errors the description asks for, in errs
AttributeErrorsHold(present, decls, errs) ==
    LET names == present \cup {decls[i].Name : i \in DOMAIN decls}
        missing == {n \in names : Required(decls, n) /\ n \notin present}
        unexpected == {n \in names : n \in present /\ ~Declared(decls, n)}
        checked == {n \in names : n \in present /\ Declared(decls, n)}
    IN  /\ \A n \in names :
              /\ Occurrences(errs, {MissingAttr(n)}) = (IF n \in missing THEN 1 ELSE 0)
              /\ Occurrences(errs, {UnexpectedAttr(n)}) = (IF n \in unexpected THEN 1 ELSE 0)
        \* every other error is the value error of an attribute that is
        \* present and declared: none is left for an absent attribute
        /\ (Len(errs) - Cardinality(missing) - Cardinality(unexpected))
              \in 0..Cardinality(checked)

\* C7: exactly one missing-required error for each required attribute that the
\* node lacks, exactly one unexpected error for each attribute the node has
\* and the schema does not declare, and no error for an absent optional one.
C7_AttributeErrors ==
    (\E c \in Callers : HasResult(c)) =>
        LET s == Setup
        IN  (s # Nil /\ HasAttributes(s[1].def)) =>
                \A c \in Callers :
                    HasResult(c) =>
                        AttributeErrorsHold(DOMAIN s[1].root.Attributes,
                                            AttrDecls(s[1].def), Errors(c))

C7_Witness ==
    /\ HasResult("c1")
    /\ MissingAttr("id") \in ErrorSet("c1")
    /\ UnexpectedAttr("extra") \in ErrorSet("c1")
    /\ Len(Errors("c1")) = 2
    /\ Setup # Nil
    /\ DOMAIN Setup[1].root.Attributes = {"extra", "badge"}
    /\ Required(AttrDecls(Setup[1].def), "badge")
    /\ Declared(AttrDecls(Setup[1].def), "dept")

\* ---- the restricted value of a root that is checked against one inline
\* restriction: its content, or its only attribute
OnContent(root, def) ==
    /\ def.SimpleType # Nil /\ def.SimpleType[1].Restriction # Nil
    /\ def.ComplexType = Nil /\ root.Attributes = EmptyMap
    /\ root.Content # <<>>
OnAttribute(root, def) ==
    /\ def.SimpleType = Nil /\ def.ComplexType # Nil
    /\ Len(AttrDecls(def)) = 1 /\ AttrDecls(def)[1].Type = ""
    /\ AttrDecls(def)[1].SimpleType # Nil
    /\ AttrDecls(def)[1].SimpleType[1].Restriction # Nil
    /\ DOMAIN root.Attributes = {AttrDecls(def)[1].Name}
    /\ root.Content = <<>>
\* <<[value, restriction, prefix]>> for such a root, Nil for any other
Restricted ==
    LET s == Setup
    IN  IF s = Nil THEN Nil
        ELSE IF s[1].def.Ref # <<>> THEN Nil
        ELSE IF OnContent(s[1].root, s[1].def)
        THEN <<[value |-> s[1].root.Content,
                restriction |-> s[1].def.SimpleType[1].Restriction[1],
                prefix |-> "invalid content in element '" \o s[1].root.Name \o "': "]>>
        ELSE IF OnAttribute(s[1].root, s[1].def)
        THEN <<[value |-> s[1].root.Attributes[AttrDecls(s[1].def)[1].Name],
                restriction |-> AttrDecls(s[1].def)[1].SimpleType[1].Restriction[1],
                prefix |-> "attribute '" \o AttrDecls(s[1].def)[1].Name \o "': "]>>
        ELSE Nil
EnumValues(r) == {r.Enumeration[i] : i \in DOMAIN r.Enumeration}
EnumError(x) == x.prefix \o "value must be one of the enumerated values"

\* what the description asks of the enumeration facet for the restricted value
\* x and the result res
EnumerationHolds(x, res) ==
    LET listed == EnumValues(x.restriction) = {} \/ x.value \in EnumValues(x.restriction)
        reported == \E i \in DOMAIN res.Errors : res.Errors[i] = EnumError(x)
    IN  /\ reported => ~listed
        /\ ~listed => ~res.Valid
        /\ (~listed /\ x.restriction.Pattern = <<>>) => res.Errors = <<EnumError(x)>>
        /\ (listed /\ x.restriction.Pattern = <<>>) => res.Errors = <<>>

\* C8: with enumeration values declared, a value passes the enumeration facet
\* exactly when it equals one of them, character for character; with none
\* declared the facet is skipped.
C8_Enumeration ==
    (\E c \in Callers : HasResult(c)) =>
        LET x == Restricted
        IN  x # Nil => \A c \in Callers : HasResult(c) => EnumerationHolds(x[1], Result(c))

C8_Witness ==
    /\ HasResult("c1")
    /\ Restricted # Nil
    /\ High \in EnumValues(Restricted[1].restriction)
    /\ Restricted[1].value = <<"H", "i", "g", "h">>
    /\ Errors("c1") = <<EnumError(Restricted[1])>>

\* a whole-value match of a pattern facet: the translated expression, anchored
\* at both ends
FullMatch(pattern, value) == MatchString(convertXSDPatternToGoRegex(pattern), value).matched

\* C9: a value passes a pattern facet only if the whole value matches the
\* pattern; a value that only contains a match is rejected.
C9_PatternIsAnchored ==
    (\E c \in Callers : HasResult(c) /\ Result(c).Valid) =>
        LET x == Restricted
        IN  x # Nil =>
               \A i \in DOMAIN x[1].restriction.Pattern :
                  FullMatch(x[1].restriction.Pattern[i], x[1].value)

\* what the description asks of several pattern facets for the restricted
\* value x and the result res
AllPatternsHold(x, res) ==
    LET facets == x.restriction.Pattern
        failing == {i \in DOMAIN facets : ~FullMatch(facets[i], x.value)}
        first == CHOOSE i \in failing : \A j \in failing : i <= j
    IN  /\ res.Valid <=> failing = {}
        /\ failing # {} =>
              res.Errors = <<x.prefix \o "value does not match pattern: "
                             \o Str(facets[first])>>

\* C10: with several pattern facets a value is accepted exactly when it matches
\* every one of them; a value failing one is rejected with "value does not
\* match pattern: P", P the first failing pattern in declared order, and the
\* document is invalid.
C10_AllPatternsMustMatch ==
    (\E c \in Callers : HasResult(c)) =>
        LET x == Restricted
        IN  (x # Nil /\ x[1].restriction.Enumeration = <<>>) =>
               \A c \in Callers : HasResult(c) => AllPatternsHold(x[1], Result(c))

\* the base types validateBaseType checks as integer, decimal, float or double
NumericTreated ==
    {"xs:integer", "integer", "xs:decimal", "decimal", "xs:float", "float",
     "xs:double", "double"}

\* the bound of kind k is present, parses and is broken by num
BoundBroken(k, facet, num) ==
    /\ facet # <<>> /\ ParseFloat(facet).ok
    /\ CASE k = ">=" -> FloatLess(num, ParseFloat(facet))
         [] k = "<=" -> FloatLess(ParseFloat(facet), num)
         [] k = ">" -> FloatLessEq(num, ParseFloat(facet))
         [] k = "<" -> FloatLessEq(ParseFloat(facet), num)

BoundKinds == {">=", "<=", ">", "<"}
BoundOf(r, k) ==
    CASE k = ">=" -> r.MinInclusive [] k = "<=" -> r.MaxInclusive
      [] k = ">" -> r.MinExclusive [] k = "<" -> r.MaxExclusive

BoundError(x, k) ==
    x.prefix \o "value must be " \o k \o " " \o FormatFloat(ParseFloat(BoundOf(x.restriction, k)))
    \o ", got " \o FormatFloat(ParseFloat(x.value))

\* what the description asks of the numeric bounds for the restricted value x
\* and the result res
NumericBoundsHold(x, res) ==
    LET broken == {k \in BoundKinds :
                      BoundBroken(k, BoundOf(x.restriction, k), ParseFloat(x.value))}
    IN  /\ res.Valid <=> broken = {}
        /\ broken # {} => \E k \in broken : res.Errors = <<BoundError(x, k)>>

\* C11: with a base type checked as decimal, integer, float or double, a value
\* of that type is rejected exactly when it breaks a bound that is present and
\* parses, and the error names the bound and the value.
C11_NumericBounds ==
    (\E c \in Callers : HasResult(c)) =>
        LET x == Restricted
        IN  (/\ x # Nil
             /\ x[1].restriction.Base \in NumericTreated
             /\ validateBuiltin(x[1].value, x[1].restriction.Base).kind = "nil")
            => \A c \in Callers : HasResult(c) => NumericBoundsHold(x[1], Result(c))

\* ---- a root whose type T restricts a user-defined type U that restricts a
\* built-in type: <<[value, lower, upper, base]>>, Nil for any other root
Chained ==
    LET s == Setup
    IN  IF s = Nil THEN Nil
        ELSE IF s[1].def.Ref # <<>> \/ s[1].def.SimpleType # Nil
                \/ s[1].def.Type \in BuiltinTypes \/ s[1].root.Content = <<>>
        THEN Nil
        ELSE LET t == findSimpleType(s[1].def.Type)
             IN  IF t = Nil THEN Nil
                 ELSE IF t[1].Restriction = Nil THEN Nil
                 ELSE LET u == findSimpleType(t[1].Restriction[1].Base)
                      IN  IF u = Nil THEN Nil
                          ELSE IF u[1].Restriction = Nil THEN Nil
                          ELSE IF u[1].Restriction[1].Base \notin BuiltinTypes THEN Nil
                          ELSE <<[value |-> s[1].root.Content,
                                  lower |-> t[1].Restriction[1],
                                  upper |-> u[1].Restriction[1],
                                  base |-> u[1].Restriction[1].Base]>>

\* the value of x passes the built-in check at the end of the chain and every
\* facet of both restrictions, read for the built-in type the chain resolves to
ChainAccepts(x) ==
    /\ validateBuiltin(x.value, x.base).kind = "nil"
    /\ validateRestrictions(x.value, x.base, x.upper).kind = "nil"
    /\ validateRestrictions(x.value, x.base, x.lower).kind = "nil"

\* C12: a value is accepted as a type T that restricts a user-defined type U
\* only if it passes the built-in check at the end of the chain, every facet
\* of U and every facet of T, T's numeric bounds included when the chain
\* resolves to a numeric type.
C12_ChainChecksEveryFacet ==
    (\E c \in Callers : HasResult(c) /\ Result(c).Valid) =>
        LET x == Chained
        IN  x # Nil => ChainAccepts(x[1])

\* C16: every call of Validate comes back to its caller, with a result or an
\* error: no schema the validator accepts sends the walk round for ever.
C16_EveryValidateReturns ==
    \A c \in Callers : ret[c] # Nil => ret[c][1].panic # StackOverflow

\* C13: no call of Validate changes the validator: the schema, with the
\* complex-type field of every element definition, and the pattern cache stay
\* as NewValidator built them.
C13_ValidateLeavesValidatorUnchanged ==
    [][(\E c \in Callers : Validate(c)) => (schema' = schema /\ patterns' = patterns)]_vars

\* both callers have a result for a root whose complex type the walk looked up
\* by name
C13_Witness ==
    /\ HasResult("c1") /\ HasResult("c2")
    /\ Setup # Nil
    /\ Setup[1].def.ComplexType = Nil
    /\ findComplexType(Setup[1].def.Type) # Nil
    /\ FillComplexType(Setup[1].def) # Setup[1].def

\* C14: the accesses of concurrent GetPattern calls to the cache map are
\* serialized: no goroutine is at the map assignment while another is at the
\* map lookup or at the map assignment.
C14_CacheAccessesSerialized ==
    \A g \in Callers : \A h \in Callers \ {g} :
        ~(gp[g].pc = "store" /\ gp[h].pc \in {"lookup", "store"})

\* the translated expression of facet string p compiles
Compiles(p) == Compile(convertXSDPatternToGoRegex(p)).ok

\* after the step the cache holds the facet strings asked for that compile,
\* each with the compiled form of its translation
CacheExact ==
    /\ DOMAIN patterns' = {p \in asked' : Compiles(p)}
    /\ \A p \in DOMAIN patterns' : patterns'[p].expr = convertXSDPatternToGoRegex(p)

\* the step in which the call of g for facet string p returns r
ReturnStepOK(p, r) ==
    /\ p \in DOMAIN patterns =>
          (r.compiled = <<patterns[p]>> /\ r.err = Nil /\ patterns' = patterns)
    /\ ~Compiles(p) => (r.compiled = Nil /\ r.err # Nil /\ patterns' = patterns)
    /\ Compiles(p) => (r.err = Nil /\ r.compiled = <<patterns'[p]>>)

\* C15: after any sequence of GetPattern calls the cache holds one entry for
\* each facet string asked for that compiled, under the facet string itself; a
\* call for a cached facet string returns the stored pattern and leaves the
\* cache as it is; a call whose translation does not compile returns an error
\* and adds nothing.
C15_CacheHoldsCompiledFacets ==
    [][/\ CacheExact
       /\ \A g \in Callers :
             (gp[g].pc # "done" /\ gp'[g].pc = "done")
                => ReturnStepOK(gp[g].pattern, gp'[g].ret[1])]_vars

\* c1 has asked twice for one facet string and got the pattern of its first
\* call back, c2 has got an error, and the cache holds the one entry
C15_Witness ==
    /\ gp["c1"].pc = "done" /\ gp["c1"].n = 2
    /\ gp["c1"].ret[1].compiled # Nil
    /\ gp["c1"].ret[1].compiled[1].by = "c1" /\ gp["c1"].ret[1].compiled[1].call = 1
    /\ gp["c1"].pattern = <<"\\d", "+">>
    /\ gp["c2"].pc = "done" /\ gp["c2"].ret[1].err # Nil
    /\ DOMAIN patterns = {<<"\\d", "+">>}

\* the error of a node that fails the name-and-namespace check of def
MismatchError(node, def) ==
    "element name or namespace mismatch: expected '{" \o def.Namespace \o "}" \o def.Name
    \o "', got '{" \o node.Namespace \o "}" \o node.Name \o "'"

\* the namespace a definition's nodes must be in under the qualified policy
EffectiveNS(def) == IF def.Namespace = "" THEN schema.TargetNS ELSE def.Namespace

\* under the qualified policy, node is named like the sequence member def but
\* is in another namespace
Foreign(node, def) ==
    /\ schema.ElementFormDefault = "qualified"
    /\ def.Ref = <<>> /\ node.Name = def.Name
    /\ node.Namespace # EffectiveNS(def)

\* a root that is in order itself (its attribute valid, no text, no choice to
\* satisfy) and whose children all fail the check of the one sequence member
OnlyForeignChildren(root, ct) ==
    /\ ct.Choice = Nil /\ ct.Sequence # Nil /\ Len(ct.Sequence[1].Elements) = 1
    /\ root.Content = <<>>
    /\ validateAttributes(root.Attributes, ct.Attributes) = {Out(<<>>)}
    /\ root.Children # <<>>
    /\ \A i \in DOMAIN root.Children : Foreign(root.Children[i], ct.Sequence[1].Elements[1])

\* the definition a root is checked against when its own definition refers
\* to one of another name: <<definition>>, Nil for any other root
RenamedBy(s) ==
    IF s = Nil THEN Nil
    ELSE IF s[1].def.Ref = <<>> THEN Nil
    ELSE IF ~resolveElementRef(s[1].def.Ref).ok THEN Nil
    ELSE IF resolveElementRef(s[1].def.Ref).elem[1].Ref # <<>> THEN Nil
    ELSE IF resolveElementRef(s[1].def.Ref).elem[1].Name = s[1].root.Name THEN Nil
    ELSE resolveElementRef(s[1].def.Ref).elem

\* C17: a node that fails the name-and-namespace check of its definition gets
\* exactly one error, and nothing else of it is checked: its attributes, its
\* content and its children give no error.
C17_MismatchIsOneError ==
    (\E c \in Callers : HasResult(c)) =>
        LET s == Setup
        IN  /\ RenamedBy(s) # Nil =>
                 \A c \in Callers :
                    HasResult(c) =>
                       Errors(c) = <<MismatchError(s[1].root, RenamedBy(s)[1])>>
            /\ (/\ s # Nil
                /\ FillComplexType(s[1].def).ComplexType # Nil
                /\ OnlyForeignChildren(s[1].root,
                                       FillComplexType(s[1].def).ComplexType[1]))
               => \A c \in Callers :
                     HasResult(c) =>
                        Errors(c) =
                           [i \in DOMAIN s[1].root.Children |->
                               MismatchError(s[1].root.Children[i],
                                             FillComplexType(s[1].def).ComplexType[1]
                                                .Sequence[1].Elements[1])]

\* the result for <order id="7"> with one item of the namespace urn:b that has
\* no attribute n and a part that is no integer
C17_Witness ==
    /\ HasResult("c1")
    /\ Setup # Nil
    /\ Len(Setup[1].root.Children) = 1
    /\ Setup[1].root.Name = "order"
    /\ Setup[1].root.Children[1].Namespace = "urn:b"
    /\ Setup[1].root.Children[1].Attributes = EmptyMap
    /\ Len(Setup[1].root.Children[1].Children) = 1
    /\ Errors("c1") = <<"element name or namespace mismatch: expected '{}item', got '{urn:b}item'">>

\* ---- the four steps validateElement takes on a node that passed the
\* name-and-namespace check, each on its own: the error lists it can append
AttributeStep(node, d) ==
    IF d.ComplexType = Nil THEN {<<>>}
    ELSE {o.errs : o \in {a \in validateAttributes(node.Attributes,
                                                     d.ComplexType[1].Attributes) :
                              a.abort = ""}}
ContentStep(node, d) ==
    IF node.Content = <<>> THEN {<<>>}
    ELSE IF validateElementContent(node.Content, d).kind = "nil" THEN {<<>>}
    ELSE IF validateElementContent(node.Content, d).kind = "err"
    THEN {<<"invalid content in element '" \o node.Name \o "': "
            \o validateElementContent(node.Content, d).msg>>}
    ELSE {}
SequenceStep(node, d) ==
    IF d.ComplexType = Nil THEN {<<>>}
    ELSE IF d.ComplexType[1].Sequence = Nil THEN {<<>>}
    ELSE {o.errs : o \in {q \in validateSequence(node.Children,
                                                   d.ComplexType[1].Sequence[1]) :
                              q.abort = ""}}
ChoiceStep(node, d) ==
    IF d.ComplexType = Nil THEN {<<>>}
    ELSE IF d.ComplexType[1].Choice = Nil THEN {<<>>}
    ELSE {o.errs : o \in {h \in validateChoice(node.Children,
                                                 d.ComplexType[1].Choice[1]) :
                              h.abort = ""}}

\* the error lists made of what every step reports, in the order of the steps
AllSteps(node, d) ==
    {a \o c \o q \o h : a \in AttributeStep(node, d), c \in ContentStep(node, d),
                        q \in SequenceStep(node, d), h \in ChoiceStep(node, d)}

\* C18: for a node that passes the name-and-namespace check, the errors are
\* those of the attributes, then the content error, then those of the
\* sequence, then those of the choice: every step reports whatever the steps
\* before it found.
C18_StepsAllReportInOrder ==
    (\E c \in Callers : HasResult(c)) =>
        LET s == Setup
        IN  (/\ s # Nil
             /\ s[1].def.Ref = <<>>
             /\ validateElementNameAndNS(s[1].root, s[1].def))
            => \A c \in Callers :
                  HasResult(c) => Errors(c) \in AllSteps(s[1].root, FillComplexType(s[1].def))

\* the result for <order>hi</order> under the schema with a choice: every
\* step has reported
C18_Witness ==
    /\ HasResult("c1")
    /\ Errors("c1") = <<"missing required attribute 'id'",
                        "invalid content in element 'order': unsupported type: OrderType",
                        "element 'item' occurs 0 times, minimum required is 1",
                        "choice group occurs 0 times, minimum required is 1">>

\* ---- choices: the root's choice when the definition Validate picked has one
\* of its own, and what its alternatives name
HasRootChoice ==
    /\ Setup # Nil
    /\ Setup[1].def.Ref = <<>>
    /\ Setup[1].def.ComplexType # Nil
    /\ Setup[1].def.ComplexType[1].Choice # Nil
RootChoice == Setup[1].def.ComplexType[1].Choice[1]
RootKids == Setup[1].root.Children

\* the name an alternative stands for: its own, or the one it refers to;
\* Nil for a reference to no top-level element
AlternativeName(e) ==
    IF e.Ref = <<>> THEN <<e.Name>>
    ELSE IF \E k \in 1..Len(schema.Elements) : schema.Elements[k].Name = Str(e.Ref)
    THEN <<Str(e.Ref)>>
    ELSE Nil
AlternativeNames(choice) ==
    {AlternativeName(choice.Elements[k])[1] :
        k \in {j \in 1..Len(choice.Elements) : AlternativeName(choice.Elements[j]) # Nil}}
MatchedKids(choice) ==
    {i \in 1..Len(RootKids) : RootKids[i].Name \in AlternativeNames(choice)}
InvalidChoiceMsgs ==
    {"element '" \o RootKids[i].Name \o "' is not a valid choice" : i \in 1..Len(RootKids)}
ChoiceOccursMsgs(n, choice) ==
    {"choice group occurs " \o ToString(n) \o " times, minimum required is "
        \o ToString(MinOccursOf(choice.MinOccurs)),
     "choice group occurs " \o ToString(n) \o " times, maximum allowed is "
        \o ToString(MaxOccursOf(choice.MaxOccurs))}

\* the children are counted as the claim says: one invalid-choice error for
\* every child no alternative names, and no occurrence error that states
\* another count than the number of children an alternative names
ChildrenAccounted(c, choice) ==
    /\ Occurrences(Errors(c), InvalidChoiceMsgs)
          = Len(RootKids) - Cardinality(MatchedKids(choice))
    /\ \A n \in 0..Len(RootKids) :
          n # Cardinality(MatchedKids(choice))
             => Occurrences(Errors(c), ChoiceOccursMsgs(n, choice)) = 0

\* C19: under a choice every child is either matched by an alternative and
\* counted once, or reported once as not a valid choice, so the matched count
\* and the number of invalid-choice errors add up to the number of children.
C19_EveryChildMatchedOrReported ==
    \A c \in Callers :
        (HasResult(c) /\ HasRootChoice /\ RootChoice.Choice = Nil)
            => ChildrenAccounted(c, RootChoice)

\* the same for choices that have at least one element alternative
C19_WithAlternatives ==
    \A c \in Callers :
        (HasResult(c) /\ HasRootChoice /\ RootChoice.Choice = Nil
           /\ RootChoice.Elements # <<>>)
            => ChildrenAccounted(c, RootChoice)

\* the bounds some occurrence error about the choice could state: the
\* choice's own and those of its alternatives
StatedMins(choice) ==
    {MinOccursOf(choice.MinOccurs)}
    \cup {MinOccursOf(choice.Elements[k].MinOccurs) : k \in 1..Len(choice.Elements)}
StatedMaxs(choice) ==
    {MaxOccursOf(choice.MaxOccurs)}
    \cup {MaxOccursOf(choice.Elements[k].MaxOccurs) : k \in 1..Len(choice.Elements)}
TooFewMsgs(choice) ==
    {"choice group occurs " \o ToString(n) \o " times, minimum required is " \o ToString(k) :
        n \in 0..Len(RootKids), k \in StatedMins(choice)}
TooManyMsgs(choice) ==
    {"choice group occurs " \o ToString(n) \o " times, maximum allowed is " \o ToString(k) :
        n \in 0..Len(RootKids), k \in StatedMaxs(choice)}
TooFewMsg(n, choice) ==
    "choice group occurs " \o ToString(n) \o " times, minimum required is "
        \o ToString(MinOccursOf(choice.MinOccurs))
TooManyMsg(n, choice) ==
    "choice group occurs " \o ToString(n) \o " times, maximum allowed is "
        \o ToString(MaxOccursOf(choice.MaxOccurs))

ChoiceBoundsReported(c, choice, matched) ==
    /\ Occurrences(Errors(c), TooFewMsgs(choice))
          = (IF matched < MinOccursOf(choice.MinOccurs) THEN 1 ELSE 0)
    /\ Occurrences(Errors(c), TooManyMsgs(choice))
          = (IF matched > MaxOccursOf(choice.MaxOccurs) THEN 1 ELSE 0)
    /\ matched < MinOccursOf(choice.MinOccurs) => TooFewMsg(matched, choice) \in ErrorSet(c)
    /\ matched > MaxOccursOf(choice.MaxOccurs) => TooManyMsg(matched, choice) \in ErrorSet(c)

\* C20: a choice reports too few occurrences exactly when the number of
\* matched children is below its own minOccurs (1 when absent) and too many
\* exactly when it is above its own maxOccurs (1 when absent, no limit for
\* "unbounded"); what the alternatives state as their own minOccurs and
\* maxOccurs changes nothing.
C20_ChoiceOwnBoundsDecide ==
    \A c \in Callers :
        (HasResult(c) /\ HasRootChoice /\ RootChoice.Choice = Nil)
            => ChoiceBoundsReported(c, RootChoice, Cardinality(MatchedKids(RootChoice)))

\* two matched children under a choice without bounds of its own whose first
\* alternative states minOccurs = maxOccurs = 2: too many for the choice
C20_Witness ==
    /\ HasResult("c1") /\ HasRootChoice
    /\ RootChoice.MaxOccurs = <<>>
    /\ RootChoice.Elements # <<>>
    /\ RootChoice.Elements[1].MaxOccurs = <<"2">>
    /\ Cardinality(MatchedKids(RootChoice)) = 2
    /\ Errors("c1") = <<"choice group occurs 2 times, maximum allowed is 1">>

\* ---- a choice that holds another: what each of the two reports when it is
\* handed the root's children on its own
ChoiceAlone(choice) ==
    {h.errs : h \in {o \in validateChoice(RootKids, [choice EXCEPT !.Choice = Nil]) :
                        o.abort = ""}}
NestedThenOuter(outer) ==
    {n \o o : n \in ChoiceAlone(outer.Choice[1]), o \in ChoiceAlone(outer)}
MatchesBoth(outer) ==
    \A i \in 1..Len(RootKids) :
        /\ RootKids[i].Name \in AlternativeNames(outer)
        /\ RootKids[i].Name \in AlternativeNames(outer.Choice[1])
NestedChoiceChecked(c, outer) ==
    /\ Errors(c) \in NestedThenOuter(outer)
    /\ Occurrences(Errors(c), InvalidChoiceMsgs) = 0 => MatchesBoth(outer)

\* C21: the nested choice is validated first, against all the children and
\* with its own bounds, and its errors come before the outer choice's; a
\* result without an invalid-choice error means every child matched an
\* alternative of the nested choice and one of the outer choice.
C21_NestedChoiceFirstAndBoth ==
    \A c \in Callers :
        (HasResult(c) /\ HasRootChoice /\ RootChoice.Choice # Nil)
            => NestedChoiceChecked(c, RootChoice)

\* the same when both choices have element alternatives
C21_BothWithAlternatives ==
    \A c \in Callers :
        (HasResult(c) /\ HasRootChoice /\ RootChoice.Choice # Nil
           /\ RootChoice.Elements # <<>> /\ RootChoice.Choice[1].Elements # <<>>)
            => NestedChoiceChecked(c, RootChoice)

\* the order and the bounds alone, for every nested choice
C21_NestedErrorsFirst ==
    \A c \in Callers :
        (HasResult(c) /\ HasRootChoice /\ RootChoice.Choice # Nil)
            => Errors(c) \in NestedThenOuter(RootChoice)

\* ---- refs: the local part of a ref (what follows its prefix) and the first
\* top-level element of that name
RECURSIVE AfterPrefix(_, _)
AfterPrefix(ref, i) ==
    IF i > Len(ref) THEN ref
    ELSE IF ref[i] = ":" THEN SubSeq(ref, i + 1, Len(ref))
    ELSE AfterPrefix(ref, i + 1)
RefTargets(ref) ==
    {k \in 1..Len(schema.Elements) : schema.Elements[k].Name = Str(AfterPrefix(ref, 1))}
FirstTarget(ref) ==
    schema.Elements[CHOOSE k \in RefTargets(ref) : \A j \in RefTargets(ref) : k <= j]
ValidatedAsTarget(c, root, ref) ==
    IF RefTargets(ref) = {}
    THEN /\ HasResult(c)
         /\ Errors(c) = <<"referenced element not found: " \o Str(ref)>>
    ELSE ret[c][1] \in ValidateRoot(root, <<FirstTarget(ref)>>)

\* C22: a node held against a definition with ref is validated exactly as
\* against the first top-level element named by the ref's local part; when
\* there is none, the only error is that the referenced element is not found.
C22_RefValidatedAsTarget ==
    \A c \in Callers :
        (ret[c] # Nil /\ Setup # Nil /\ Setup[1].def.Ref # <<>>)
            => ValidatedAsTarget(c, Setup[1].root, Setup[1].def.Ref)

\* <alias>x</alias> under alias ref="tns:item": held against the first item,
\* an integer, and not against the element whose name is the ref as written
C22_Witness ==
    /\ HasResult("c1") /\ Setup # Nil
    /\ Setup[1].def.Ref = <<"t", "n", "s", ":", "i", "t", "e", "m">>
    /\ Len(Errors("c1")) = 1
    /\ Errors("c1")[1] # "referenced element not found: tns:item"

\* <twice>7</twice> under twice ref="gone": one error
C22_WitnessNotFound ==
    /\ HasResult("c1") /\ Setup # Nil
    /\ Setup[1].def.Ref = <<"g", "o", "n", "e">>
    /\ Setup[1].root.Content # <<>>
    /\ Errors("c1") = <<"referenced element not found: gone">>

\* ---- text content.  The character data directly inside the root: the
\* chunks of the document's tokens at depth 1, in order
RECURSIVE RootChunks(_, _)
RootChunks(tokens, depth) ==
    IF tokens = <<>> THEN <<>>
    ELSE IF Head(tokens).type = "start" THEN RootChunks(Tail(tokens), depth + 1)
    ELSE IF Head(tokens).type = "end" THEN RootChunks(Tail(tokens), depth - 1)
    ELSE IF Head(tokens).type = "chardata" /\ depth = 1
    THEN <<Head(tokens).Data>> \o RootChunks(Tail(tokens), depth)
    ELSE RootChunks(Tail(tokens), depth)
RootText == TrimSpace(Flatten(RootChunks(doc[1], 0)))

RECURSIVE NoText(_)
NoText(node) ==
    /\ node.Content = <<>>
    /\ \A i \in 1..Len(node.Children) : NoText(node.Children[i])

\* C23: a node without text, or with blank text only, is never held against
\* its declared type or inline simple type: a document whose nodes all have
\* empty trimmed content, and that can be wrong in its content only, is valid.
C23_EmptyContentNotChecked ==
    \A c \in Callers :
        (ret[c] # Nil /\ Setup # Nil /\ NoText(Setup[1].root)
           /\ Setup[1].root.Name \in {"n", "box"})
            => (HasResult(c) /\ Errors(c) = <<>> /\ Result(c).Valid)

\* <n> </n> with blank character data, n declared as an integer
C23_Witness ==
    /\ HasResult("c1") /\ Setup # Nil
    /\ Setup[1].def.Type = "xs:integer"
    /\ Setup[1].root.Name = "n"
    /\ RootChunks(doc[1], 0) # <<>>
    /\ RootText = <<>>
    /\ Errors("c1") = <<>>

\* C25: the text content of an element is all its character data put
\* together, with the whitespace at the two ends of the whole removed and
\* every other whitespace kept, between chunks and next to child elements
\* too.
C25_ContentTrimmedAtEndsOnly ==
    (doc # Nil /\ ParseXML(doc[1]).status = "ok" /\ ParseXML(doc[1]).node # Nil)
        => ParseXML(doc[1]).node[1].Content = RootText

\* the same for elements whose character data comes as one chunk
C25_SingleChunk ==
    (doc # Nil /\ ParseXML(doc[1]).status = "ok" /\ ParseXML(doc[1]).node # Nil
       /\ Len(RootChunks(doc[1], 0)) <= 1)
        => ParseXML(doc[1]).node[1].Content = RootText

\* ---- facets whose declared value is no number.  The restriction with
\* those facets taken out:
NoNumber(facet) == facet # <<>> /\ ~ParseFloat(facet).ok
WithoutUnparsable(r) ==
    [r EXCEPT !.Length = IF NoNumber(@) THEN <<>> ELSE @,
              !.MinLength = IF NoNumber(@) THEN <<>> ELSE @,
              !.MaxLength = IF NoNumber(@) THEN <<>> ELSE @,
              !.MinInclusive = IF NoNumber(@) THEN <<>> ELSE @,
              !.MaxInclusive = IF NoNumber(@) THEN <<>> ELSE @,
              !.MinExclusive = IF NoNumber(@) THEN <<>> ELSE @,
              !.MaxExclusive = IF NoNumber(@) THEN <<>> ELSE @]
HasRestriction(d) == d.SimpleType # Nil /\ d.SimpleType[1].Restriction # Nil
DefWithoutUnparsable(d) ==
    [d EXCEPT !.SimpleType[1].Restriction[1] = WithoutUnparsable(@)]
UnparsableSkipped(c) ==
    ret[c][1] \in ValidateRoot(Setup[1].root, <<DefWithoutUnparsable(Setup[1].def)>>)

\* C24: a length or numeric facet whose declared value is no number is
\* skipped: the outcome is the one the restriction gives without that facet.
C24_UnparsableFacetSkipped ==
    \A c \in Callers :
        (ret[c] # Nil /\ Setup # Nil /\ HasRestriction(Setup[1].def))
            => UnparsableSkipped(c)

\* the same for restrictions whose length and maxLength are numbers or absent
C24_BoundsAndMinLengthSkipped ==
    \A c \in Callers :
        (ret[c] # Nil /\ Setup # Nil /\ HasRestriction(Setup[1].def)
           /\ ~NoNumber(Setup[1].def.SimpleType[1].Restriction[1].Length)
           /\ ~NoNumber(Setup[1].def.SimpleType[1].Restriction[1].MaxLength))
            => UnparsableSkipped(c)

\* ---- reordered children.  The root with its children in the order ord (a
\* sequence of their indices), and whether two error lists hold the same
\* messages the same number of times
Reordered(node, ord) ==
    [node EXCEPT !.Children = [i \in 1..Len(ord) |-> node.Children[ord[i]]]]
SameMessages(e1, e2) ==
    /\ Len(e1) = Len(e2)
    /\ \A i \in 1..Len(e1) : Occurrences(e1, {e1[i]}) = Occurrences(e2, {e1[i]})
SameVerdict(r1, r2) ==
    /\ r1.result # Nil /\ r2.result # Nil
    /\ r1.result[1].Valid = r2.result[1].Valid
    /\ SameMessages(r1.result[1].Errors, r2.result[1].Errors)
HasRootSequence ==
    /\ Setup # Nil
    /\ Setup[1].def.Ref = <<>>
    /\ FillComplexType(Setup[1].def).ComplexType # Nil
    /\ FillComplexType(Setup[1].def).ComplexType[1].Sequence # Nil

\* C26: under a sequence the order of the children is of no account: with
\* the children in any other order the document gets the same validity flag
\* and the same error messages, each as many times.
C26_SequenceOrderFree ==
    \A c \in Callers :
        (HasResult(c) /\ HasRootSequence)
            => \A ord \in RangeOrders(1..Len(Setup[1].root.Children)) :
                  \A r \in ValidateRoot(Reordered(Setup[1].root, ord), <<Setup[1].def>>) :
                      SameVerdict(ret[c][1], r)

\* two children that each bring an error of their own, so that the other
\* order gives the other error list
C26_Witness ==
    /\ HasResult("c1") /\ HasRootSequence
    /\ Len(Setup[1].root.Children) = 2
    /\ Len(Errors("c1")) >= 2
    /\ \E r \in ValidateRoot(Reordered(Setup[1].root, <<2, 1>>), <<Setup[1].def>>) :
          r.result # Nil /\ r.result[1].Errors # Errors("c1")

\* ---- positiveInteger.  A base-10 signed integer: an optional sign and one
\* or more digits; it is greater than 0 when it has no minus sign and some
\* digit other than 0
Unsigned10(v) == IF v # <<>> /\ v[1] \in {"+", "-"} THEN Tail(v) ELSE v
IsInteger10(v) == Unsigned10(v) # <<>> /\ \A i \in 1..Len(Unsigned10(v)) : Unsigned10(v)[i] \in Digits
IsPositive10(v) ==
    /\ IsInteger10(v)
    /\ v[1] # "-"
    /\ \E i \in 1..Len(Unsigned10(v)) : Unsigned10(v)[i] # "0"
PositiveIntegerChecked(c, v) ==
    /\ Errors(c) = <<>> <=> IsPositive10(v)
    /\ (IsInteger10(v) /\ ~IsPositive10(v))
          => Errors(c) = <<"invalid content in element 'count': value must be positive, got "
                            \o ToString(ParseInt(v, 64).val)>>

\* C27: a value is accepted as positiveInteger exactly when it is a base-10
\* signed integer greater than 0, and 0 and negative values are rejected as
\* not positive, whether the type is named xs:positiveInteger or
\* positiveInteger.
C27_PositiveInteger ==
    \A c \in Callers :
        (HasResult(c) /\ Setup # Nil /\ Setup[1].root.Content # <<>>
           /\ Setup[1].def.Type \in {"xs:positiveInteger", "positiveInteger"})
            => PositiveIntegerChecked(c, Setup[1].root.Content)

\* the same for the prefixed name alone
C27_Prefixed ==
    \A c \in Callers :
        (HasResult(c) /\ Setup # Nil /\ Setup[1].root.Content # <<>>
           /\ Setup[1].def.Type = "xs:positiveInteger")
            => PositiveIntegerChecked(c, Setup[1].root.Content)

\* C28: the definition Validate picks for the root, when it has no ref,
\* passes the name-and-namespace check validateElement makes on the root,
\* whatever the form policy: no result holds a mismatch error for the root.
C28_PickedRootMatches ==
    \A c \in Callers :
        (ret[c] # Nil /\ Setup # Nil /\ Setup[1].def.Ref = <<>>)
            => /\ HasResult(c)
               /\ MismatchError(Setup[1].root, Setup[1].def) \notin ErrorSet(c)
               /\ Setup[1].root.Name = Setup[1].def.Name
               /\ schema.ElementFormDefault = "qualified"
                     => Setup[1].root.Namespace = EffectiveNS(Setup[1].def)

\* a root in the target namespace picked for a definition that states another
\* namespace, which only the non-qualified policy allows
C28_Witness ==
    /\ HasResult("c1") /\ Setup # Nil
    /\ schema.ElementFormDefault # "qualified"
    /\ Setup[1].def.Namespace = "urn:b"
    /\ Setup[1].root.Namespace = "urn:a"
    /\ Errors("c1") = <<>>

\* ---- inputs without an element
NoElement(tokens) == \A i \in 1..Len(tokens) : tokens[i].type \in {"chardata", "other"}

\* C29: for an input that holds no element Validate returns an error and no
\* result; it does not go on to look the root up.
C29_NoElementIsSetupError ==
    \A c \in Callers :
        (ret[c] # Nil /\ NoElement(doc[1]))
            => (ret[c][1].panic = "" /\ ret[c][1].result = Nil /\ ret[c][1].err # Nil)

\* ---- namespace scopes.  The namespaces of a tree's elements in document
\* order, and those the decoder resolved for the start tags: the namespace
\* the declarations in scope give each element, empty for an unprefixed
\* element outside every default declaration
RECURSIVE NodeNamespaces(_)
NodeNamespaces(node) ==
    <<node.Namespace>>
    \o Flatten([i \in 1..Len(node.Children) |-> NodeNamespaces(node.Children[i])])
RECURSIVE ScopedNamespaces(_)
ScopedNamespaces(tokens) ==
    IF tokens = <<>> THEN <<>>
    ELSE (IF Head(tokens).type = "start" THEN <<Head(tokens).Name.Space>> ELSE <<>>)
         \o ScopedNamespaces(Tail(tokens))

\* the parser's locals after the first k tokens
ParsedUpTo(tokens, k) == ParseLoop(ParseStart, SubSeq(tokens, 1, k))
DepthInStep(tokens) ==
    \A k \in 0..Len(tokens) :
        ParsedUpTo(tokens, k).status = "ok"
            => Len(ParsedUpTo(tokens, k).nsStack) = Len(ParsedUpTo(tokens, k).stack) + 1

NamespacesScoped(tokens) ==
    (ParseXML(tokens).status = "ok" /\ ParseXML(tokens).node # Nil)
        => /\ NodeNamespaces(ParseXML(tokens).node[1]) = ScopedNamespaces(tokens)
           /\ DepthInStep(tokens)

\* an attribute that is no namespace declaration but has the local name xmlns
OddAttribute(tokens) ==
    \E i \in 1..Len(tokens) : \E j \in 1..Len(tokens[i].Attr) :
        /\ tokens[i].Attr[j].Name.Local = "xmlns"
        /\ tokens[i].Attr[j].Name.Space \notin {"", "xmlns"}

\* C30: a namespace declaration holds for its element and the descendants
\* and for nothing after the end tag; the stack of scopes is one deeper than
\* the open elements; an unprefixed element outside every default
\* declaration is in the empty namespace.
C30_DeclarationsScoped == doc # Nil => NamespacesScoped(doc[1])

\* the same for documents whose attributes named xmlns are declarations
C30_PlainDeclarations == (doc # Nil /\ ~OddAttribute(doc[1])) => NamespacesScoped(doc[1])
====
